---- MODULE Spec2Model ----
(***************************************************************************)
(* Job-matching backend (Express + Prisma): the application workflow of    *)
(* routes/application.routes.ts, the posting routes of the job router,     *)
(* registration, login and the password-recovery protocol of               *)
(* routes/auth.routes.ts, the seeker's listings, and the middleware of     *)
(* middleware/auth.middleware.ts with the tokens of lib/auth.ts, as a      *)
(* state machine over the store's tables and the requests in flight.       *)
(* A handler is an async function: it runs                                 *)
(* without interruption from one awaited store call to the next, and other *)
(* requests run in between.  One action of the model is one awaited store  *)
(* call together with the handler code that follows it up to the next      *)
(* await (or up to the response).  The arrival of a request, with the      *)
(* middleware that runs in the same turn, is taken with the first awaited  *)
(* call of the handler, and the await of hashPassword, which touches no    *)
(* table, with the store call after it.                                    *)
(***************************************************************************)
EXTENDS Integers, Sequences, FiniteSets, TLC

\* ------------------------------------------------------------------ bounds
MaxReq == 2       \* request slots: requests in flight at the same time
MaxAppId == 2     \* cap of the Application table's autoincrement id
MaxResets == 2    \* cap of the PasswordReset table's autoincrement id
MaxTime == 20     \* the clock stops advancing here (minutes)
TickStep == 10    \* minutes the clock advances in one step
MaxPosts == 3     \* cap of the stored postings
MaxUsers == 7     \* cap of the stored users
RandomScale == 1024  \* Math.random() returns one of the fractions k / RandomScale

\* ------------------------------------------------------- program constants
OTP_EXPIRY_MINUTES == 10
BCRYPT_COST == 10
BCRYPT_MAX_BYTES == 72              \* bcrypt keys its cipher with 72 bytes of the password
OTP_LENGTH == 6
PASSWORD_MIN == 6
JWT_SECRET == "server-key"      \* process.env.JWT_SECRET, or the default of lib/auth.ts
JWT_EXPIRES_IN == 10080         \* "7d", in minutes
ROLES == [JOB_SEEKER |-> 1, SHOP_OWNER |-> 2]

VARIABLES
    profiles,     \* JobSeekerProfile table: set of [id, userId]
    shops,        \* Shop table: set of [id, userId]
    posts,        \* ShopJobPost table: set of [id, shopId, status]
    apps,         \* Application table: set of [id, seekerId, postId, status]
    nextAppId,    \* Application autoincrement
    users,        \* User table: set of [id, email, passwordHash, roleId, isActive]
    resets,       \* PasswordReset table: set of [id, userId, otpCode, otpExpiry, isUsed]
    now,          \* the server clock (new Date()), in minutes
    reqs,         \* request slot -> the request in it: parameters, position, locals, response
                  \* (and sawUsed, history: the OTP lookup that failed met a used row of its code;
                  \* sawForeign, history: the owner-scoped lookup that failed met another owner's row;
                  \* failed, history: the creation preconditions that did not hold when an apply
                  \* request was refused; header, history: the Authorization header of a request
                  \* that the middleware refused; token, rows: the token and the records a
                  \* response carries)
    pwUpdates     \* history: PasswordReset id -> committed password updates that consumed it

vars == <<profiles, shops, posts, apps, nextAppId, users, resets, now, reqs, pwUpdates>>

appVars == <<profiles, shops, posts, apps, nextAppId>>
authVars == <<users, resets, now, pwUpdates>>

Slots == 1..MaxReq

\* ------------------------------------------------------------- responses
NoResp == [status |-> 0, body |-> "", otpCode |-> ""]
Resp(s, b) == [status |-> s, body |-> b, otpCode |-> ""]

\* the error kinds of the specification, as the responses the handlers send
ValidationError == Resp(400, "Validation error")
ProfileRequired == Resp(404, "Job seeker profile not found. Please complete your profile first.")
JobNotFound == Resp(404, "Job not found")
JobClosed == Resp(400, "Job is no longer accepting applications")
DuplicateApplication == Resp(400, "You have already applied to this job")
ApplicationCreated == Resp(201, "Application submitted successfully")
ApplyInternalError == Resp(500, "Failed to submit application")
SeekerProfileNotFound == Resp(404, "Job seeker profile not found")
WithdrawNotFoundOrUnauthorized == Resp(404, "Application not found or unauthorized")
Withdrawn == Resp(200, "Application withdrawn successfully")
WithdrawInternalError == Resp(500, "Failed to withdraw application")
ShopProfileNotFound == Resp(404, "Shop profile not found")
ApplicationNotFound == Resp(404, "Application not found")
StatusForbidden == Resp(403, "Unauthorized to update this application")
StatusUpdated == Resp(200, "Application status updated")
StatusInternalError == Resp(500, "Failed to update application status")
InvalidStatus == Resp(400, "Invalid status")
JobNotFoundOrUnauthorized == Resp(404, "Job not found or unauthorized")
JobStatusUpdated == Resp(200, "Job status updated")
JobStatusInternalError == Resp(500, "Failed to update job status")
ApplicationsListed == Resp(200, "applications")
ForgotUnknownEmail == Resp(200, "If email exists, OTP has been sent")
ForgotSent(otpCode) == [status |-> 200, body |-> "OTP sent to email", otpCode |-> otpCode]
ResetInvalidRequest == Resp(400, "Invalid request")
InvalidOrExpiredOTP == Resp(400, "Invalid or expired OTP")
ResetSuccessful == Resp(200, "Password reset successful")
ResetInternalError == Resp(500, "Failed to reset password")

\* ------------------------------------------------------------------ tokens
\* req.user before authenticate has attached an identity
NoUser == [userId |-> 0, email |-> "", roleId |-> 0]

\* no token: the response carries none
NoToken == [userId |-> 0, email |-> "", roleId |-> 0, iat |-> 0, exp |-> 0, key |-> ""]

\* jwt.sign(payload, key, { expiresIn }): the payload with the time of issue
\* and the expiry, signed with the key
sign(payload, key, clock) ==
    [userId |-> payload.userId, email |-> payload.email, roleId |-> payload.roleId,
     iat |-> clock, exp |-> clock + JWT_EXPIRES_IN, key |-> key]

generateToken(payload, clock) == sign(payload, JWT_SECRET, clock)

\* a verification that still accepts a token at the minute of its expiry
jwtVerify_LateExpiry(token, key, clock) ==
    IF token.key # key
    THEN [ok |-> FALSE, user |-> NoUser, error |-> "invalid signature"]
    ELSE IF clock > token.exp
    THEN [ok |-> FALSE, user |-> NoUser, error |-> "jwt expired"]
    ELSE [ok |-> TRUE, error |-> "",
          user |-> [userId |-> token.userId, email |-> token.email, roleId |-> token.roleId]]

\* jwt.verify(token, key): the signature is checked first, then the expiry
\* (expired when the clock is at or past exp); it returns the payload or throws
jwtVerify(token, key, clock) ==
    IF token.key # key
    THEN [ok |-> FALSE, user |-> NoUser, error |-> "invalid signature"]
    ELSE IF clock >= token.exp
    THEN [ok |-> FALSE, user |-> NoUser, error |-> "jwt expired"]
    ELSE [ok |-> TRUE, error |-> "",
          user |-> [userId |-> token.userId, email |-> token.email, roleId |-> token.roleId]]

\* try { return jwt.verify(token, JWT_SECRET) } catch { throw new Error("Invalid or expired token") }
verifyToken(token, clock) ==
    LET decoded == jwtVerify(token, JWT_SECRET, clock)
    IN IF decoded.ok THEN decoded ELSE [decoded EXCEPT !.error = "Invalid or expired token"]

\* the payloads of the tokens of user 1 and of user 4, and the payload of a
\* token that user 1 made up
SeekerPayload == [userId |-> 1, email |-> "a@x.com", roleId |-> ROLES.JOB_SEEKER]
OwnerPayload == [userId |-> 4, email |-> "d@x.com", roleId |-> ROLES.SHOP_OWNER]
ForgedPayload == [userId |-> 1, email |-> "a@x.com", roleId |-> ROLES.SHOP_OWNER]

\* the Authorization header of a request: absent, or a prefix and a token
NoHeader == [present |-> FALSE, prefix |-> "", token |-> NoToken]
Bearer(token) == [present |-> TRUE, prefix |-> "Bearer ", token |-> token]
Basic(token) == [present |-> TRUE, prefix |-> "Basic ", token |-> token]

\* ---------------------------------------------------------------- requests
IdleReq ==
    [kind |-> "idle", pc |-> "idle",
     userId |-> 0, postId |-> 0, appId |-> 0, status |-> "",
     email |-> "", otpCode |-> "", newPassword |-> "",
     profile |-> 0, shop |-> 0, user |-> 0, otpExpiry |-> 0, passwordReset |-> 0,
     checkedAt |-> 0, sawUsed |-> FALSE, sawForeign |-> FALSE, failed |-> {},
     header |-> NoHeader, token |-> NoToken, rows |-> {},
     roleId |-> 0, passwordHash |-> <<>>,
     resp |-> NoResp]

Free(r) == reqs[r].pc \in {"idle", "done"}

\* the handler returns: its frame (parameters and locals) is gone, its response is sent
Finish(r, response) ==
    [reqs EXCEPT ![r] = [IdleReq EXCEPT !.kind = reqs[r].kind, !.pc = "done", !.resp = response]]

\* ------------------------------------------------------------- lib/auth.ts
\* bcrypt.hash(password, 10): a digest that carries its parameters. bcrypt
\* reads the first 72 bytes of the password and no more, so the digest is
\* that of the password's first 72 bytes (a byte a character).
hashPassword(password) ==
    <<"bcrypt", BCRYPT_COST,
      IF Len(password) > BCRYPT_MAX_BYTES THEN SubSeq(password, 1, BCRYPT_MAX_BYTES) ELSE password>>

\* bcrypt.compare(password, hash): the password is hashed with the parameters
\* of the digest and the two digests are compared; a mismatch is the answer
\* false
comparePassword(password, hash) ==
    hash = <<"bcrypt", hash[2],
             IF Len(password) > BCRYPT_MAX_BYTES THEN SubSeq(password, 1, BCRYPT_MAX_BYTES) ELSE password>>

\* expiry.setMinutes(expiry.getMinutes() + 10) on new Date()
getOTPExpiry(clock) == clock + OTP_EXPIRY_MINUTES

\* Math.floor(100000 + Math.random() * 900000).toString(): one of the 6-digit
\* strings; two of them stand for the range
generateOTP == {"123456", "654321"}

\* --------------------------------------------- middleware/auth.middleware.ts
NoTokenProvided == Resp(401, "No token provided")
InvalidOrExpiredToken == Resp(401, "Invalid or expired token")
NotAuthenticated == Resp(401, "Not authenticated")
InsufficientPermissions == Resp(403, "Insufficient permissions")

\* a middleware that answers with what verifyToken threw
authenticate_Leaky(header, clock) ==
    IF ~header.present \/ header.prefix # "Bearer "
    THEN [next |-> FALSE, user |-> NoUser, resp |-> NoTokenProvided]
    ELSE LET decoded == jwtVerify(header.token, JWT_SECRET, clock)
         IN IF decoded.ok
            THEN [next |-> TRUE, user |-> decoded.user, resp |-> NoResp]
            ELSE [next |-> FALSE, user |-> NoUser, resp |-> Resp(401, decoded.error)]

\* a middleware that lets a request without a usable token through
authenticate_Open(header, clock) ==
    IF ~header.present \/ header.prefix # "Bearer "
    THEN [next |-> TRUE, user |-> NoUser, resp |-> NoResp]
    ELSE LET decoded == verifyToken(header.token, clock)
         IN [next |-> TRUE, user |-> decoded.user, resp |-> NoResp]

\* a middleware that also looks the identity up and refuses a deactivated one
authenticate_CheckingStore(header, clock) ==
    IF ~header.present \/ header.prefix # "Bearer "
    THEN [next |-> FALSE, user |-> NoUser, resp |-> NoTokenProvided]
    ELSE LET decoded == verifyToken(header.token, clock)
         IN IF decoded.ok /\ \E u \in users : u.id = decoded.user.userId /\ u.isActive
            THEN [next |-> TRUE, user |-> decoded.user, resp |-> NoResp]
            ELSE [next |-> FALSE, user |-> NoUser, resp |-> InvalidOrExpiredToken]

\* authenticate(req, res, next): next is whether next() was called, user is
\* req.user afterwards, resp the response sent when it was not
authenticate(header, clock) ==
    IF ~header.present \/ header.prefix # "Bearer "
    THEN [next |-> FALSE, user |-> NoUser, resp |-> NoTokenProvided]
    ELSE LET decoded == verifyToken(header.token, clock)
         IN IF decoded.ok
            THEN [next |-> TRUE, user |-> decoded.user, resp |-> NoResp]
            ELSE [next |-> FALSE, user |-> NoUser, resp |-> InvalidOrExpiredToken]

\* a role check that lets every attached identity through
requireRole_AnyRole(allowedRoleIds, user) ==
    IF user = NoUser
    THEN [next |-> FALSE, user |-> user, resp |-> NotAuthenticated]
    ELSE [next |-> TRUE, user |-> user, resp |-> NoResp]

\* requireRole(...allowedRoleIds)(req, res, next)
requireRole(allowedRoleIds, user) ==
    IF user = NoUser
    THEN [next |-> FALSE, user |-> user, resp |-> NotAuthenticated]
    ELSE IF user.roleId \notin allowedRoleIds
    THEN [next |-> FALSE, user |-> user, resp |-> InsufficientPermissions]
    ELSE [next |-> TRUE, user |-> user, resp |-> NoResp]

\* router.<method>(path, authenticate, requireRole(...), handler): Express
\* calls the next middleware in the same turn, only when next() was called
Gate(header, allowedRoleIds, clock) ==
    LET a == authenticate(header, clock)
    IN IF a.next THEN requireRole(allowedRoleIds, a.user) ELSE a

\* ------------------------------------------------------------- the store
\* The seeded store: two seekers with a profile (users 1, 2), one without
\* (user 3), two shop owners (users 4, 5), an open posting of the first shop
\* and a closed posting of the second.
Init ==
    /\ profiles = {[id |-> 11, userId |-> 1], [id |-> 12, userId |-> 2]}
    /\ shops = {[id |-> 21, userId |-> 4], [id |-> 22, userId |-> 5]}
    /\ posts = {[id |-> 31, shopId |-> 21, status |-> "open"],
                [id |-> 32, shopId |-> 22, status |-> "closed"]}
    /\ apps = {}
    /\ nextAppId = 1
    /\ users = {[id |-> 1, email |-> "a@x.com", passwordHash |-> hashPassword("secret0"),
                 roleId |-> ROLES.JOB_SEEKER, isActive |-> TRUE],
                [id |-> 2, email |-> "b@x.com", passwordHash |-> hashPassword("secret0"),
                 roleId |-> ROLES.JOB_SEEKER, isActive |-> TRUE],
                [id |-> 3, email |-> "c@x.com", passwordHash |-> hashPassword("secret0"),
                 roleId |-> ROLES.JOB_SEEKER, isActive |-> TRUE],
                [id |-> 4, email |-> "d@x.com", passwordHash |-> hashPassword("secret0"),
                 roleId |-> ROLES.SHOP_OWNER, isActive |-> TRUE],
                [id |-> 5, email |-> "e@x.com", passwordHash |-> hashPassword("secret0"),
                 roleId |-> ROLES.SHOP_OWNER, isActive |-> TRUE]}
    /\ resets = {}
    /\ now = 0
    /\ reqs = [r \in Slots |-> IdleReq]
    /\ pwUpdates = [c \in 1..MaxResets |-> 0]

\* what the clients of the application workflow send: <<authenticated user,
\* posting id>> of an apply request, <<user, application id>> of a withdraw
\* request, <<user, application id, status>> of a status update
AppIds == 1..MaxAppId
ApplyInputs == {<<1, 31>>, <<2, 31>>}
WithdrawInputs == {1} \X AppIds
StatusInputs == {4} \X AppIds \X {"accepted"}

\* prisma.jobSeekerProfile.findUnique({ where: { userId } }): the profile's id, 0 for null
ProfileOfUser(u) ==
    IF \E p \in profiles : p.userId = u
    THEN (CHOOSE p \in profiles : p.userId = u).id
    ELSE 0

\* prisma.shop.findUnique({ where: { userId } }): the shop's id, 0 for null
ShopOfUser(u) ==
    IF \E s \in shops : s.userId = u
    THEN (CHOOSE s \in shops : s.userId = u).id
    ELSE 0

\* prisma.shopJobPost.findUnique({ where: { id } })
PostExists(id) == \E j \in posts : j.id = id
PostById(id) == CHOOSE j \in posts : j.id = id

\* prisma.application.findUnique({ where: { seekerId_postId: { seekerId, postId } } })
ExistingApplication(seeker, post) ==
    \E a \in apps : a.seekerId = seeker /\ a.postId = post

\* prisma.application.findUnique({ where: { id } }) / findFirst({ where: { id, seekerId } })
AppExists(id) == \E a \in apps : a.id = id
AppById(id) == CHOOSE a \in apps : a.id = id

\* a store without the unique index: no insert is refused
UniqueRefuses_NoIndex(seeker, post) == FALSE

\* The unique index behind the seekerId_postId key: an insert of a pair that
\* is already stored is refused by the store (Prisma error P2002).
UniqueRefuses(seeker, post) == \E a \in apps : a.seekerId = seeker /\ a.postId = post

\* prisma.application.create({ data: { seekerId, postId } }): the row inserted
\* (status takes the column default)
NewApplication(seeker, post) ==
    [id |-> nextAppId, seekerId |-> seeker, postId |-> post, status |-> "pending"]

\* ------------------------------------------- POST /api/applications (apply)
\* history: the creation preconditions that do not hold of user u and posting
\* p in the store as it is, by the error kind each one is refused with
ApplyFailed(u, p) ==
    (IF ProfileOfUser(u) = 0 THEN {"ProfileRequired"} ELSE {})
    \cup (IF ~PostExists(p) THEN {"NotFound"} ELSE {})
    \cup (IF PostExists(p) /\ PostById(p).status # "open" THEN {"JobClosed"} ELSE {})
    \cup (IF ExistingApplication(ProfileOfUser(u), p) THEN {"DuplicateApplication"} ELSE {})

\* The arrival of a request changes nothing another request can see, so the
\* lookup of the caller's profile (or shop) that opens a handler is taken
\* together with the arrival of the request.

\* a handler that looks the posting up before the profile
ApplyStart_JobFirst(r, u, p, bodyOk) ==
    /\ Free(r)
    /\ LET profile == ProfileOfUser(u)
           req == [IdleReq EXCEPT !.kind = "apply", !.userId = u, !.postId = p]
           gone == [IdleReq EXCEPT !.kind = "apply", !.pc = "done"]
       IN reqs' = IF ~bodyOk
                  THEN [reqs EXCEPT ![r] = [gone EXCEPT !.resp = ValidationError]]
                  ELSE IF ~PostExists(p)
                  THEN [reqs EXCEPT ![r] = [gone EXCEPT !.failed = ApplyFailed(u, p),
                                                        !.resp = JobNotFound]]
                  ELSE IF profile = 0
                  THEN [reqs EXCEPT ![r] = [gone EXCEPT !.failed = ApplyFailed(u, p),
                                                        !.resp = ProfileRequired]]
                  ELSE [reqs EXCEPT ![r] = [req EXCEPT !.pc = "a_job", !.profile = profile]]
    /\ UNCHANGED <<appVars, authVars>>

\* The request arrives with a verified job_seeker token; the body is parsed;
\* await jobSeekerProfile.findUnique; if (!profile) return 404
ApplyStart(r, u, p, bodyOk) ==
    /\ Free(r)
    /\ LET profile == ProfileOfUser(u)
           req == [IdleReq EXCEPT !.kind = "apply", !.userId = u, !.postId = p]
       IN reqs' = IF ~bodyOk
                  THEN [reqs EXCEPT ![r] = [req EXCEPT !.pc = "done", !.userId = 0, !.postId = 0,
                                                       !.resp = ValidationError]]
                  ELSE IF profile = 0
                  THEN [reqs EXCEPT ![r] = [req EXCEPT !.pc = "done", !.userId = 0, !.postId = 0,
                                                       !.failed = ApplyFailed(u, p),
                                                       !.resp = ProfileRequired]]
                  ELSE [reqs EXCEPT ![r] = [req EXCEPT !.pc = "a_job", !.profile = profile]]
    /\ UNCHANGED <<appVars, authVars>>

\* the handler without its open check: a posting that is stored goes on to the duplicate check
ApplyFindJob_NoOpenCheck(r) ==
    /\ reqs[r].kind = "apply" /\ reqs[r].pc = "a_job"
    /\ reqs' = IF ~PostExists(reqs[r].postId)
               THEN [Finish(r, JobNotFound) EXCEPT
                        ![r].failed = ApplyFailed(reqs[r].userId, reqs[r].postId)]
               ELSE [reqs EXCEPT ![r].pc = "a_existing"]
    /\ UNCHANGED <<appVars, authVars>>

\* a handler that inserts a draft row of the pair before it looks the posting up
ApplyFindJob_Reserving(r) ==
    /\ reqs[r].kind = "apply" /\ reqs[r].pc = "a_job"
    /\ reqs' = IF ~PostExists(reqs[r].postId)
               THEN [Finish(r, JobNotFound) EXCEPT
                        ![r].failed = ApplyFailed(reqs[r].userId, reqs[r].postId)]
               ELSE IF PostById(reqs[r].postId).status # "open"
               THEN [Finish(r, JobClosed) EXCEPT
                        ![r].failed = ApplyFailed(reqs[r].userId, reqs[r].postId)]
               ELSE [reqs EXCEPT ![r].pc = "a_existing"]
    /\ apps' = apps \cup {[id |-> 0, seekerId |-> reqs[r].profile, postId |-> reqs[r].postId,
                            status |-> "draft"]}
    /\ UNCHANGED <<profiles, shops, posts, nextAppId, authVars>>

\* await shopJobPost.findUnique; if (!job) return 404; if (job.status !== "open") return 400
ApplyFindJob(r) ==
    /\ reqs[r].kind = "apply" /\ reqs[r].pc = "a_job"
    /\ reqs' = IF ~PostExists(reqs[r].postId)
               THEN [Finish(r, JobNotFound) EXCEPT
                        ![r].failed = ApplyFailed(reqs[r].userId, reqs[r].postId)]
               ELSE IF PostById(reqs[r].postId).status # "open"
               THEN [Finish(r, JobClosed) EXCEPT
                        ![r].failed = ApplyFailed(reqs[r].userId, reqs[r].postId)]
               ELSE [reqs EXCEPT ![r].pc = "a_existing"]
    /\ UNCHANGED <<appVars, authVars>>

\* the handler without its duplicate check: it goes on to the insert
ApplyFindExisting_NoCheck(r) ==
    /\ reqs[r].kind = "apply" /\ reqs[r].pc = "a_existing"
    /\ reqs' = [reqs EXCEPT ![r].pc = "a_create"]
    /\ UNCHANGED <<appVars, authVars>>

\* await application.findUnique (seekerId_postId); if (existingApplication) return 400
ApplyFindExisting(r) ==
    /\ reqs[r].kind = "apply" /\ reqs[r].pc = "a_existing"
    /\ reqs' = IF ExistingApplication(reqs[r].profile, reqs[r].postId)
               THEN [Finish(r, DuplicateApplication) EXCEPT
                        ![r].failed = ApplyFailed(reqs[r].userId, reqs[r].postId)]
               ELSE [reqs EXCEPT ![r].pc = "a_create"]
    /\ UNCHANGED <<appVars, authVars>>

\* await application.create; res.status(201); a store error is caught: 500
ApplyCreate(r) ==
    /\ reqs[r].kind = "apply" /\ reqs[r].pc = "a_create"
    /\ IF UniqueRefuses(reqs[r].profile, reqs[r].postId)
       THEN /\ reqs' = Finish(r, ApplyInternalError)
            /\ UNCHANGED <<apps, nextAppId>>
       ELSE /\ nextAppId <= MaxAppId
            /\ apps' = apps \cup {NewApplication(reqs[r].profile, reqs[r].postId)}
            /\ nextAppId' = nextAppId + 1
            /\ reqs' = Finish(r, ApplicationCreated)
    /\ UNCHANGED <<profiles, shops, posts, authVars>>

\* ------------------------------------ DELETE /api/applications/:id (withdraw)
\* The request arrives with a verified job_seeker token;
\* await jobSeekerProfile.findUnique; if (!profile) return 404
WithdrawStart(r, u, id) ==
    /\ Free(r)
    /\ LET profile == ProfileOfUser(u)
           req == [IdleReq EXCEPT !.kind = "withdraw", !.userId = u, !.appId = id]
       IN reqs' = IF profile = 0
                  THEN [reqs EXCEPT ![r] = [req EXCEPT !.pc = "done", !.userId = 0, !.appId = 0,
                                                       !.resp = SeekerProfileNotFound]]
                  ELSE [reqs EXCEPT ![r] = [req EXCEPT !.pc = "w_find", !.profile = profile]]
    /\ UNCHANGED <<appVars, authVars>>

\* the lookup by id alone: another seeker's application is found
WithdrawFind_AnySeeker(r) ==
    /\ reqs[r].kind = "withdraw" /\ reqs[r].pc = "w_find"
    /\ reqs' = IF AppExists(reqs[r].appId)
               THEN [reqs EXCEPT ![r].pc = "w_delete"]
               ELSE Finish(r, WithdrawNotFoundOrUnauthorized)
    /\ UNCHANGED <<appVars, authVars>>

\* await application.findFirst({ where: { id, seekerId } }); if (!application) return 404
WithdrawFind(r) ==
    /\ reqs[r].kind = "withdraw" /\ reqs[r].pc = "w_find"
    /\ reqs' = IF AppExists(reqs[r].appId) /\ AppById(reqs[r].appId).seekerId = reqs[r].profile
               THEN [reqs EXCEPT ![r].pc = "w_delete"]
               ELSE [Finish(r, WithdrawNotFoundOrUnauthorized) EXCEPT
                        ![r].sawForeign = AppExists(reqs[r].appId)]
    /\ UNCHANGED <<appVars, authVars>>

\* a withdrawal that keeps the row and marks it withdrawn
WithdrawDelete_Marking(r) ==
    /\ reqs[r].kind = "withdraw" /\ reqs[r].pc = "w_delete"
    /\ IF AppExists(reqs[r].appId)
       THEN /\ apps' = {IF a.id = reqs[r].appId THEN [a EXCEPT !.status = "withdrawn"] ELSE a
                         : a \in apps}
            /\ reqs' = Finish(r, Withdrawn)
       ELSE /\ apps' = apps
            /\ reqs' = Finish(r, WithdrawInternalError)
    /\ UNCHANGED <<profiles, shops, posts, nextAppId, authVars>>

\* await application.delete({ where: { id } }); a row that is gone is a store error: 500
WithdrawDelete(r) ==
    /\ reqs[r].kind = "withdraw" /\ reqs[r].pc = "w_delete"
    /\ IF AppExists(reqs[r].appId)
       THEN /\ apps' = apps \ {AppById(reqs[r].appId)}
            /\ reqs' = Finish(r, Withdrawn)
       ELSE /\ apps' = apps
            /\ reqs' = Finish(r, WithdrawInternalError)
    /\ UNCHANGED <<profiles, shops, posts, nextAppId, authVars>>

\* ------------------------- PATCH /api/applications/:id/status (status update)
\* The request arrives with a verified shop_owner token; the body is parsed
\* against updateStatusSchema; await shop.findUnique; if (!shop) return 404
StatusStart(r, u, id, status, bodyOk) ==
    /\ Free(r)
    /\ LET shop == ShopOfUser(u)
           req == [IdleReq EXCEPT !.kind = "status", !.userId = u, !.appId = id, !.status = status]
           gone == [IdleReq EXCEPT !.kind = "status", !.pc = "done"]
       IN reqs' = IF ~bodyOk
                  THEN [reqs EXCEPT ![r] = [gone EXCEPT !.resp = ValidationError]]
                  ELSE IF shop = 0
                  THEN [reqs EXCEPT ![r] = [gone EXCEPT !.resp = ShopProfileNotFound]]
                  ELSE [reqs EXCEPT ![r] = [req EXCEPT !.pc = "s_find", !.shop = shop]]
    /\ UNCHANGED <<appVars, authVars>>

\* the handler without its ownership check: any shop's application goes on to the update
StatusFind_NoOwnerCheck(r) ==
    /\ reqs[r].kind = "status" /\ reqs[r].pc = "s_find"
    /\ reqs' = IF ~AppExists(reqs[r].appId)
               THEN Finish(r, ApplicationNotFound)
               ELSE [reqs EXCEPT ![r].pc = "s_update"]
    /\ UNCHANGED <<appVars, authVars>>

\* await application.findUnique({ where: { id }, include: { post } });
\* if (!application) return 404; if (application.post.shopId !== shop.id) return 403
StatusFind(r) ==
    /\ reqs[r].kind = "status" /\ reqs[r].pc = "s_find"
    /\ reqs' = IF ~AppExists(reqs[r].appId)
               THEN Finish(r, ApplicationNotFound)
               ELSE IF PostById(AppById(reqs[r].appId).postId).shopId # reqs[r].shop
               THEN Finish(r, StatusForbidden)
               ELSE [reqs EXCEPT ![r].pc = "s_update"]
    /\ UNCHANGED <<appVars, authVars>>

\* await application.update({ where: { id }, data: { status } }); a row that is gone: 500
StatusUpdate(r) ==
    /\ reqs[r].kind = "status" /\ reqs[r].pc = "s_update"
    /\ IF AppExists(reqs[r].appId)
       THEN /\ apps' = (apps \ {AppById(reqs[r].appId)})
                         \cup {[AppById(reqs[r].appId) EXCEPT !.status = reqs[r].status]}
            /\ reqs' = Finish(r, StatusUpdated)
       ELSE /\ apps' = apps
            /\ reqs' = Finish(r, StatusInternalError)
    /\ UNCHANGED <<profiles, shops, posts, nextAppId, authVars>>

\* ------------------------------------------------- the application workflow
NextApp ==
    \/ \E r \in Slots, in \in ApplyInputs : ApplyStart(r, in[1], in[2], TRUE)
    \/ \E r \in Slots : ApplyStart(r, 1, 0, FALSE)
    \/ \E r \in Slots : ApplyFindJob(r)
    \/ \E r \in Slots : ApplyFindExisting(r)
    \/ \E r \in Slots : ApplyCreate(r)
    \/ \E r \in Slots, in \in WithdrawInputs : WithdrawStart(r, in[1], in[2])
    \/ \E r \in Slots : WithdrawFind(r)
    \/ \E r \in Slots : WithdrawDelete(r)
    \/ \E r \in Slots, in \in StatusInputs : StatusStart(r, in[1], in[2], in[3], TRUE)
    \/ \E r \in Slots : StatusStart(r, 4, 1, "", FALSE)
    \/ \E r \in Slots : StatusFind(r)
    \/ \E r \in Slots : StatusUpdate(r)

SpecApp == Init /\ [][NextApp]_vars

\* ------------------------------------- the status updates of two shop owners
\* updateStatusSchema: z.enum(["pending", "accepted", "rejected", "withdrawn"])
AppStatuses == {"pending", "accepted", "rejected", "withdrawn"}

\* One seeker applies to the open posting of shop 21; the owner of that shop
\* (user 4) and the owner of shop 22 (user 5) send status updates with every
\* status of the schema, for a stored and for an unused application id.
OwnerStatusInputs == {4, 5} \X AppIds \X AppStatuses

NextStatus ==
    \/ \E r \in Slots : ApplyStart(r, 1, 31, TRUE)
    \/ \E r \in Slots : ApplyFindJob(r)
    \/ \E r \in Slots : ApplyFindExisting(r)
    \/ \E r \in Slots : ApplyCreate(r)
    \/ \E r \in Slots, in \in OwnerStatusInputs : StatusStart(r, in[1], in[2], in[3], TRUE)
    \/ \E r \in Slots : StatusStart(r, 4, 1, "", FALSE)
    \/ \E r \in Slots : StatusFind(r)
    \/ \E r \in Slots : StatusUpdate(r)

SpecStatus == Init /\ [][NextStatus]_vars

\* --------------------------------------- the withdrawals of two seekers
\* Seeker 1 applies to the open posting, the owner of its shop accepts; seeker
\* 1 and seeker 2 (who has no application) send withdrawals for every
\* application id.
SeekerWithdrawInputs == {1, 2} \X AppIds

NextWithdraw ==
    \/ \E r \in Slots : ApplyStart(r, 1, 31, TRUE)
    \/ \E r \in Slots : ApplyFindJob(r)
    \/ \E r \in Slots : ApplyFindExisting(r)
    \/ \E r \in Slots : ApplyCreate(r)
    \/ \E r \in Slots, in \in SeekerWithdrawInputs : WithdrawStart(r, in[1], in[2])
    \/ \E r \in Slots : WithdrawFind(r)
    \/ \E r \in Slots : WithdrawDelete(r)
    \/ \E r \in Slots, in \in StatusInputs : StatusStart(r, in[1], in[2], in[3], TRUE)
    \/ \E r \in Slots : StatusFind(r)
    \/ \E r \in Slots : StatusUpdate(r)

SpecWithdraw == Init /\ [][NextWithdraw]_vars

\* ------------------------------------ PATCH /api/jobs/:id/status (job status)
\* what the clients of the posting workflow send: <<authenticated user,
\* posting id, status>> of a status update, <<user, posting id>> of a listing
\* of a posting's applications; posting 33 is not stored
JobStatuses == {"open", "closed", "completed"}
PostIds == {31, 32, 33}
JobStatusInputs == {4, 5} \X PostIds \X JobStatuses
ListInputs == {4, 5} \X PostIds

\* the lookup by id alone: another shop's posting is found
PostOfShop_AnyShop(id, shop) == \E j \in posts : j.id = id

\* prisma.shopJobPost.findFirst({ where: { id, shopId } }): is there such a row
PostOfShop(id, shop) == \E j \in posts : j.id = id /\ j.shopId = shop

\* prisma.shopJobPost.update({ where: { id }, data: { status } })
PostUpdate(table, id, status) ==
    {IF j.id = id THEN [j EXCEPT !.status = status] ELSE j : j \in table}

\* The request arrives with a verified shop_owner token;
\* if (!["open", "closed", "completed"].includes(status)) return 400;
\* await shop.findUnique; if (!shop) return 404
JobStatusStart(r, u, id, status) ==
    /\ Free(r)
    /\ LET shop == ShopOfUser(u)
           gone == [IdleReq EXCEPT !.kind = "jobstatus", !.pc = "done"]
       IN reqs' = IF status \notin JobStatuses
                  THEN [reqs EXCEPT ![r] = [gone EXCEPT !.resp = InvalidStatus]]
                  ELSE IF shop = 0
                  THEN [reqs EXCEPT ![r] = [gone EXCEPT !.resp = ShopProfileNotFound]]
                  ELSE [reqs EXCEPT ![r] = [IdleReq EXCEPT !.kind = "jobstatus", !.pc = "j_find",
                                               !.userId = u, !.postId = id, !.status = status,
                                               !.shop = shop]]
    /\ UNCHANGED <<appVars, authVars>>

\* a lookup by id followed by a comparison of the shop: another shop's
\* posting is answered 403, a missing one 404
JobStatusFind_Distinguishing(r) ==
    /\ reqs[r].kind = "jobstatus" /\ reqs[r].pc = "j_find"
    /\ reqs' = IF ~PostExists(reqs[r].postId)
               THEN Finish(r, JobNotFoundOrUnauthorized)
               ELSE IF PostById(reqs[r].postId).shopId # reqs[r].shop
               THEN [Finish(r, Resp(403, "Unauthorized to update this job")) EXCEPT
                        ![r].sawForeign = TRUE]
               ELSE [reqs EXCEPT ![r].pc = "j_update"]
    /\ UNCHANGED <<appVars, authVars>>

\* await shopJobPost.findFirst({ where: { id, shopId: shop.id } }); if (!job) return 404
JobStatusFind(r) ==
    /\ reqs[r].kind = "jobstatus" /\ reqs[r].pc = "j_find"
    /\ reqs' = IF PostOfShop(reqs[r].postId, reqs[r].shop)
               THEN [reqs EXCEPT ![r].pc = "j_update"]
               ELSE [Finish(r, JobNotFoundOrUnauthorized) EXCEPT
                        ![r].sawForeign = PostExists(reqs[r].postId)]
    /\ UNCHANGED <<appVars, authVars>>

\* await shopJobPost.update({ where: { id }, data: { status } }); a row that is gone: 500
JobStatusUpdate(r) ==
    /\ reqs[r].kind = "jobstatus" /\ reqs[r].pc = "j_update"
    /\ IF PostExists(reqs[r].postId)
       THEN /\ posts' = PostUpdate(posts, reqs[r].postId, reqs[r].status)
            /\ reqs' = Finish(r, JobStatusUpdated)
       ELSE /\ posts' = posts
            /\ reqs' = Finish(r, JobStatusInternalError)
    /\ UNCHANGED <<profiles, shops, apps, nextAppId, authVars>>

\* ----------------------- GET /api/applications/job/:jobId (applications of a job)
\* The request arrives with a verified shop_owner token;
\* await shop.findUnique; if (!shop) return 404
ListStart(r, u, id) ==
    /\ Free(r)
    /\ LET shop == ShopOfUser(u)
           gone == [IdleReq EXCEPT !.kind = "list", !.pc = "done"]
       IN reqs' = IF shop = 0
                  THEN [reqs EXCEPT ![r] = [gone EXCEPT !.resp = ShopProfileNotFound]]
                  ELSE [reqs EXCEPT ![r] = [IdleReq EXCEPT !.kind = "list", !.pc = "l_job",
                                               !.userId = u, !.postId = id, !.shop = shop]]
    /\ UNCHANGED <<appVars, authVars>>

\* await shopJobPost.findFirst({ where: { id: jobId, shopId: shop.id } }); if (!job) return 404
ListFindJob(r) ==
    /\ reqs[r].kind = "list" /\ reqs[r].pc = "l_job"
    /\ reqs' = IF PostOfShop(reqs[r].postId, reqs[r].shop)
               THEN [reqs EXCEPT ![r].pc = "l_many"]
               ELSE [Finish(r, JobNotFoundOrUnauthorized) EXCEPT
                        ![r].sawForeign = PostExists(reqs[r].postId)]
    /\ UNCHANGED <<appVars, authVars>>

\* await application.findMany({ where: { postId } }); res.json({ applications }):
\* a read; the rows it returns are not kept in the response of the model
ListFindMany(r) ==
    /\ reqs[r].kind = "list" /\ reqs[r].pc = "l_many"
    /\ reqs' = Finish(r, ApplicationsListed)
    /\ UNCHANGED <<appVars, authVars>>

\* ---------------------------------------------------- the posting workflow
NextJob ==
    \/ \E r \in Slots, in \in JobStatusInputs : JobStatusStart(r, in[1], in[2], in[3])
    \/ \E r \in Slots : JobStatusStart(r, 4, 31, "archived")
    \/ \E r \in Slots : JobStatusFind(r)
    \/ \E r \in Slots : JobStatusUpdate(r)
    \/ \E r \in Slots, in \in ListInputs : ListStart(r, in[1], in[2])
    \/ \E r \in Slots : ListFindJob(r)
    \/ \E r \in Slots : ListFindMany(r)

SpecJob == Init /\ [][NextJob]_vars

\* ------------------------------- applying while the owner closes the posting
\* A seeker with a profile (user 1) and one without (user 3) apply to the open
\* posting 31, the closed posting 32 and the missing posting 33; the owner of
\* shop 21 closes or completes posting 31.
ApplyOrderInputs == {1, 3} \X PostIds
CloseInputs == {4} \X {31} \X {"closed", "completed"}

NextOrder ==
    \/ \E r \in Slots, in \in ApplyOrderInputs : ApplyStart(r, in[1], in[2], TRUE)
    \/ \E r \in Slots : ApplyStart(r, 1, 0, FALSE)
    \/ \E r \in Slots : ApplyFindJob(r)
    \/ \E r \in Slots : ApplyFindExisting(r)
    \/ \E r \in Slots : ApplyCreate(r)
    \/ \E r \in Slots, in \in CloseInputs : JobStatusStart(r, in[1], in[2], in[3])
    \/ \E r \in Slots : JobStatusFind(r)
    \/ \E r \in Slots : JobStatusUpdate(r)

SpecOrder == Init /\ [][NextOrder]_vars

\* ------------------------------------------------- the password recovery
\* what the clients of the recovery protocol send: the email of a forgot
\* request, <<email, otpCode, newPassword>> of a reset request
Emails == {"a@x.com", "b@x.com", "n@x.com", "z@x.com"}
ForgotInputs == {"a@x.com", "z@x.com"}
ResetInputs == {<<"a@x.com", "123456", "secret1">>}

\* z.string().email()
IsEmail(email) == email \in Emails

\* prisma.user.findUnique({ where: { email } }): the user's id, 0 for null
UserOfEmail(email) ==
    IF \E u \in users : u.email = email
    THEN (CHOOSE u \in users : u.email = email).id
    ELSE 0

ResetById(id) == CHOOSE c \in resets : c.id = id

\* the clock advances
Tick ==
    /\ now + TickStep <= MaxTime
    /\ now' = now + TickStep
    /\ UNCHANGED <<appVars, users, resets, pwUpdates, reqs>>

\* ---------------------------- POST /api/auth/forgot-password (requestReset)
\* The arrival of a request changes nothing another request can see, so the
\* lookup of the user by email that opens a handler is taken together with
\* the arrival of the request.

\* forgotPasswordSchema.parse; await user.findUnique; if (!user) return the
\* neutral message; otpCode = generateOTP(); otpExpiry = getOTPExpiry()
ForgotStart(r, email, code) ==
    /\ Free(r)
    /\ LET user == UserOfEmail(email)
           gone == [IdleReq EXCEPT !.kind = "forgot", !.pc = "done"]
       IN reqs' = IF ~IsEmail(email)
                  THEN [reqs EXCEPT ![r] = [gone EXCEPT !.resp = ValidationError]]
                  ELSE IF user = 0
                  THEN [reqs EXCEPT ![r] = [gone EXCEPT !.resp = ForgotUnknownEmail]]
                  ELSE [reqs EXCEPT ![r] = [IdleReq EXCEPT !.kind = "forgot", !.pc = "f_create",
                                               !.email = email, !.user = user, !.otpCode = code,
                                               !.otpExpiry = getOTPExpiry(now)]]
    /\ UNCHANGED <<appVars, authVars>>

\* a requestReset that invalidates the identity's earlier codes
ForgotCreate_Invalidating(r) ==
    /\ reqs[r].kind = "forgot" /\ reqs[r].pc = "f_create"
    /\ Cardinality(resets) < MaxResets
    /\ resets' = {IF c.userId = reqs[r].user THEN [c EXCEPT !.isUsed = TRUE] ELSE c : c \in resets}
                   \cup {[id |-> Cardinality(resets) + 1, userId |-> reqs[r].user,
                          otpCode |-> reqs[r].otpCode, otpExpiry |-> reqs[r].otpExpiry,
                          isUsed |-> FALSE]}
    /\ reqs' = Finish(r, ForgotSent(reqs[r].otpCode))
    /\ UNCHANGED <<appVars, users, now, pwUpdates>>

\* await passwordReset.create({ data: { userId, otpCode, otpExpiry } });
\* res.json({ message: "OTP sent to email", otpCode })
ForgotCreate(r) ==
    /\ reqs[r].kind = "forgot" /\ reqs[r].pc = "f_create"
    /\ Cardinality(resets) < MaxResets
    /\ resets' = resets \cup {[id |-> Cardinality(resets) + 1, userId |-> reqs[r].user,
                               otpCode |-> reqs[r].otpCode, otpExpiry |-> reqs[r].otpExpiry,
                               isUsed |-> FALSE]}
    /\ reqs' = Finish(r, ForgotSent(reqs[r].otpCode))
    /\ UNCHANGED <<appVars, users, now, pwUpdates>>

\* ------------------------------ POST /api/auth/reset-password (consumeReset)
\* resetPasswordSchema: otpCode z.string().length(6), newPassword z.string().min(6)
ResetBodyOk(email, otpCode, newPassword) ==
    IsEmail(email) /\ Len(otpCode) = OTP_LENGTH /\ Len(newPassword) >= PASSWORD_MIN

\* resetPasswordSchema.parse; await user.findUnique; if (!user) return 400
ResetStart(r, email, otpCode, newPassword) ==
    /\ Free(r)
    /\ LET user == UserOfEmail(email)
           gone == [IdleReq EXCEPT !.kind = "reset", !.pc = "done"]
       IN reqs' = IF ~ResetBodyOk(email, otpCode, newPassword)
                  THEN [reqs EXCEPT ![r] = [gone EXCEPT !.resp = ValidationError]]
                  ELSE IF user = 0
                  THEN [reqs EXCEPT ![r] = [gone EXCEPT !.resp = ResetInvalidRequest]]
                  ELSE [reqs EXCEPT ![r] = [IdleReq EXCEPT !.kind = "reset", !.pc = "r_find",
                                               !.email = email, !.user = user, !.otpCode = otpCode,
                                               !.newPassword = newPassword]]
    /\ UNCHANGED <<appVars, authVars>>

\* the where clause with gt for gte
ValidOtps_Strict(userId, otpCode, clock) ==
    {c \in resets : c.userId = userId /\ c.otpCode = otpCode /\ ~c.isUsed /\ c.otpExpiry > clock}

\* the where clause without isUsed: false
ValidOtps_AnyUse(userId, otpCode, clock) ==
    {c \in resets : c.userId = userId /\ c.otpCode = otpCode /\ c.otpExpiry >= clock}

\* the where clause of passwordReset.findFirst:
\* { userId, otpCode, isUsed: false, otpExpiry: { gte: new Date() } }
ValidOtps(userId, otpCode, clock) ==
    {c \in resets : c.userId = userId /\ c.otpCode = otpCode /\ ~c.isUsed /\ c.otpExpiry >= clock}

\* await passwordReset.findFirst; if (!passwordReset) return 400.  findFirst
\* has no orderBy: any matching row may be the one returned.
ResetFind(r) ==
    /\ reqs[r].kind = "reset" /\ reqs[r].pc = "r_find"
    /\ IF ValidOtps(reqs[r].user, reqs[r].otpCode, now) = {}
       THEN reqs' = [Finish(r, InvalidOrExpiredOTP) EXCEPT
                        ![r].sawUsed = \E c \in resets : /\ c.userId = reqs[r].user
                                                         /\ c.otpCode = reqs[r].otpCode
                                                         /\ c.isUsed /\ c.otpExpiry >= now]
       ELSE \E c \in ValidOtps(reqs[r].user, reqs[r].otpCode, now) :
                reqs' = [reqs EXCEPT ![r].pc = "r_tx", ![r].passwordReset = c.id,
                                     ![r].checkedAt = now]
    /\ UNCHANGED <<appVars, authVars>>

\* an update that writes nothing
UserUpdate_NoWrite(table, id, passwordHash) == table

\* prisma.user.update({ where: { id }, data: { passwordHash } })
UserUpdate(table, id, passwordHash) ==
    {IF u.id = id THEN [u EXCEPT !.passwordHash = passwordHash] ELSE u : u \in table}

\* prisma.passwordReset.update({ where: { id }, data: { isUsed: true } })
PasswordResetUpdate(table, id) ==
    {IF c.id = id THEN [c EXCEPT !.isUsed = TRUE] ELSE c : c \in table}

\* passwordHash = await hashPassword(newPassword); await prisma.$transaction([...])
\* commits: both writes take effect; res.json: 200
ResetCommit(r) ==
    /\ reqs[r].kind = "reset" /\ reqs[r].pc = "r_tx"
    /\ users' = UserUpdate(users, reqs[r].user, hashPassword(reqs[r].newPassword))
    /\ pwUpdates' = [pwUpdates EXCEPT ![reqs[r].passwordReset] = @ + 1]
    /\ resets' = PasswordResetUpdate(resets, reqs[r].passwordReset)
    /\ reqs' = Finish(r, ResetSuccessful)
    /\ UNCHANGED <<appVars, now>>

\* the two writes outside a transaction: the first took effect when the
\* second failed
ResetRollback_Partial(r) ==
    /\ reqs[r].kind = "reset" /\ reqs[r].pc = "r_tx"
    /\ users' = UserUpdate(users, reqs[r].user, hashPassword(reqs[r].newPassword))
    /\ pwUpdates' = [pwUpdates EXCEPT ![reqs[r].passwordReset] = @ + 1]
    /\ reqs' = Finish(r, ResetInternalError)
    /\ UNCHANGED <<appVars, resets, now>>

\* the store fails inside prisma.$transaction: it rolls back, the error is
\* caught: 500
ResetRollback(r) ==
    /\ reqs[r].kind = "reset" /\ reqs[r].pc = "r_tx"
    /\ reqs' = Finish(r, ResetInternalError)
    /\ UNCHANGED <<appVars, authVars>>

NextReset ==
    \/ Tick
    \/ \E r \in Slots, e \in ForgotInputs, code \in generateOTP : ForgotStart(r, e, code)
    \/ \E r \in Slots : ForgotCreate(r)
    \/ \E r \in Slots, in \in ResetInputs : ResetStart(r, in[1], in[2], in[3])
    \/ \E r \in Slots : ResetFind(r)
    \/ \E r \in Slots : ResetCommit(r)
    \/ \E r \in Slots : ResetRollback(r)

SpecReset == Init /\ [][NextReset]_vars

\* ------------------------------------------------------------ the program
\* ------------------------------------------------ POST /api/auth/register
RegisterInputs == {"a@x.com", "n@x.com"} \X {"secret1"} \X {ROLES.JOB_SEEKER, ROLES.SHOP_OWNER}
EmailRegistered == Resp(400, "Email already registered")
UserRegistered == Resp(201, "User registered successfully")
RegistrationFailed == Resp(500, "Registration failed")

UserById(id) == CHOOSE u \in users : u.id = id
NewUserId == 1 + CHOOSE n \in {u.id : u \in users} : \A u \in users : u.id <= n

\* a store without the unique index on User.email
EmailUniqueRefuses_NoIndex(email) == FALSE

\* The unique index behind findUnique({ where: { email } }): an insert of an
\* email that is already stored is refused by the store (Prisma error P2002).
EmailUniqueRefuses(email) == \E u \in users : u.email = email

\* registerSchema.parse; await user.findUnique; if (existingUser) return 400
RegisterStart(r, email, password, roleId) ==
    /\ Free(r)
    /\ LET gone == [IdleReq EXCEPT !.kind = "register", !.pc = "done"]
       IN reqs' = [reqs EXCEPT ![r] =
              IF ~(IsEmail(email) /\ Len(password) >= PASSWORD_MIN /\ roleId \in 1..2)
              THEN [gone EXCEPT !.resp = ValidationError]
              ELSE IF UserOfEmail(email) # 0
              THEN [gone EXCEPT !.resp = EmailRegistered]
              ELSE [IdleReq EXCEPT !.kind = "register", !.pc = "g_create", !.email = email,
                                   !.newPassword = password, !.roleId = roleId]]
    /\ UNCHANGED <<appVars, authVars>>

\* a create that stores the role of a seeker whatever role was asked for
RegisterCreate_DefaultRole(r) ==
    /\ reqs[r].kind = "register" /\ reqs[r].pc = "g_create"
    /\ Cardinality(users) < MaxUsers
    /\ IF EmailUniqueRefuses(reqs[r].email)
       THEN /\ reqs' = Finish(r, RegistrationFailed)
            /\ UNCHANGED <<appVars, authVars>>
       ELSE LET user == [id |-> NewUserId, email |-> reqs[r].email,
                         passwordHash |-> hashPassword(reqs[r].newPassword),
                         roleId |-> ROLES.JOB_SEEKER, isActive |-> TRUE]
            IN /\ users' = users \cup {user}
               /\ reqs' = [reqs EXCEPT ![r] =
                      [IdleReq EXCEPT !.kind = "register", !.pc = "done",
                                      !.resp = UserRegistered,
                                      !.token = generateToken([userId |-> user.id,
                                                               email |-> user.email,
                                                               roleId |-> reqs[r].roleId], now)]]
               /\ UNCHANGED <<appVars, resets, now, pwUpdates>>

\* passwordHash = await hashPassword(password), which touches no table, and
\* await user.create: the row takes the next id and the column default of
\* isActive; the token is generated from the created row. A create the store
\* refuses throws, and the catch answers 500.
RegisterCreate(r) ==
    /\ reqs[r].kind = "register" /\ reqs[r].pc = "g_create"
    /\ Cardinality(users) < MaxUsers
    /\ IF EmailUniqueRefuses(reqs[r].email)
       THEN /\ reqs' = Finish(r, RegistrationFailed)
            /\ UNCHANGED <<appVars, authVars>>
       ELSE LET user == [id |-> NewUserId, email |-> reqs[r].email,
                         passwordHash |-> hashPassword(reqs[r].newPassword),
                         roleId |-> reqs[r].roleId, isActive |-> TRUE]
            IN /\ users' = users \cup {user}
               /\ reqs' = [reqs EXCEPT ![r] =
                      [IdleReq EXCEPT !.kind = "register", !.pc = "done",
                                      !.resp = UserRegistered,
                                      !.token = generateToken([userId |-> user.id,
                                                               email |-> user.email,
                                                               roleId |-> user.roleId], now)]]
               /\ UNCHANGED <<appVars, resets, now, pwUpdates>>

\* --------------------------------------------------- POST /api/auth/login
LoginInputs == {"a@x.com", "n@x.com"} \X {"secret0", "secret1"}
InvalidCredentials == Resp(401, "Invalid email or password")
AccountDeactivated == Resp(403, "Account is deactivated")
LoginSuccessful == Resp(200, "Login successful")

\* a login that does not look at isActive
LoginStart_NoActiveCheck(r, email, password) ==
    /\ Free(r)
    /\ LET gone == [IdleReq EXCEPT !.kind = "login", !.pc = "done"]
           user == UserById(UserOfEmail(email))
       IN reqs' = [reqs EXCEPT ![r] =
              IF ~IsEmail(email)
              THEN [gone EXCEPT !.resp = ValidationError]
              ELSE IF UserOfEmail(email) = 0
              THEN [gone EXCEPT !.resp = InvalidCredentials]
              ELSE [IdleReq EXCEPT !.kind = "login", !.pc = "l_compare", !.email = email,
                                   !.newPassword = password, !.user = user.id,
                                   !.roleId = user.roleId, !.passwordHash = user.passwordHash]]
    /\ UNCHANGED <<appVars, authVars>>

\* loginSchema.parse; await user.findUnique; if (!user) return 401;
\* if (!user.isActive) return 403; the row read stays in the handler
LoginStart(r, email, password) ==
    /\ Free(r)
    /\ LET gone == [IdleReq EXCEPT !.kind = "login", !.pc = "done"]
           user == UserById(UserOfEmail(email))
       IN reqs' = [reqs EXCEPT ![r] =
              IF ~IsEmail(email)
              THEN [gone EXCEPT !.resp = ValidationError]
              ELSE IF UserOfEmail(email) = 0
              THEN [gone EXCEPT !.resp = InvalidCredentials]
              ELSE IF ~user.isActive
              THEN [gone EXCEPT !.resp = AccountDeactivated]
              ELSE [IdleReq EXCEPT !.kind = "login", !.pc = "l_compare", !.email = email,
                                   !.newPassword = password, !.user = user.id,
                                   !.roleId = user.roleId, !.passwordHash = user.passwordHash]]
    /\ UNCHANGED <<appVars, authVars>>

\* await comparePassword(password, user.passwordHash); generateToken from the
\* row read at the lookup
LoginCompare(r) ==
    /\ reqs[r].kind = "login" /\ reqs[r].pc = "l_compare"
    /\ reqs' = [reqs EXCEPT ![r] =
           IF ~comparePassword(reqs[r].newPassword, reqs[r].passwordHash)
           THEN [IdleReq EXCEPT !.kind = "login", !.pc = "done", !.resp = InvalidCredentials]
           ELSE [IdleReq EXCEPT !.kind = "login", !.pc = "done", !.resp = LoginSuccessful,
                                !.token = generateToken([userId |-> reqs[r].user,
                                                         email |-> reqs[r].email,
                                                         roleId |-> reqs[r].roleId], now)]]
    /\ UNCHANGED <<appVars, authVars>>

\* ------------------------------------------------------ GET /api/auth/me
UserFound == Resp(200, "user")

\* authenticate; await user.findUnique({ where: { id: req.user.userId } });
\* the response carries the row
Me(r, header) ==
    /\ Free(r)
    /\ LET a == authenticate(header, now)
           req == [IdleReq EXCEPT !.kind = "me", !.pc = "done", !.header = header]
       IN reqs' = [reqs EXCEPT ![r] =
              IF ~a.next THEN [req EXCEPT !.resp = a.resp]
              ELSE IF \A u \in users : u.id # a.user.userId
              THEN [req EXCEPT !.resp = Resp(404, "User not found")]
              ELSE [req EXCEPT !.resp = UserFound, !.rows = {UserById(a.user.userId)}]]
    /\ UNCHANGED <<appVars, authVars>>

\* Deactivation of an identity. No route of the repository writes isActive;
\* the flag is cleared outside the routes, in one update of the row.
Deactivate(id) ==
    /\ \E u \in users : u.id = id /\ u.isActive
    /\ users' = {IF u.id = id THEN [u EXCEPT !.isActive = FALSE] ELSE u : u \in users}
    /\ UNCHANGED <<appVars, resets, now, pwUpdates, reqs>>

\* register and login
NextAccount ==
    \/ \E r \in Slots, in \in RegisterInputs : RegisterStart(r, in[1], in[2], in[3])
    \/ \E r \in Slots : RegisterCreate(r)
    \/ \E r \in Slots, in \in LoginInputs : LoginStart(r, in[1], in[2])
    \/ \E r \in Slots : LoginCompare(r)

SpecAccount == Init /\ [][NextAccount]_vars

\* the identity route, called with a token issued to user 1 at the clock's
\* origin and with a forged one, while the password of user 1 is reset and
\* user 1 is deactivated
MeHeaders ==
    {Bearer(generateToken(SeekerPayload, 0)), Bearer(sign(ForgedPayload, "other-key", 0))}

NextToken ==
    \/ \E r \in Slots, h \in MeHeaders : Me(r, h)
    \/ Deactivate(1)
    \/ \E r \in Slots : ForgotStart(r, "a@x.com", "123456")
    \/ \E r \in Slots : ForgotCreate(r)
    \/ \E r \in Slots : ResetStart(r, "a@x.com", "123456", "secret1")
    \/ \E r \in Slots : ResetFind(r)
    \/ \E r \in Slots : ResetCommit(r)
    \/ \E r \in Slots : ResetRollback(r)

SpecToken == Init /\ [][NextToken]_vars

\* ------------------------------------------------- the seeker's listings
\* GET /api/applications/my and GET /api/matches/my. No route of the
\* repository writes the Match table: its rows are given.
matches ==
    {[id |-> 41, seekerId |-> 11, postId |-> 31], [id |-> 42, seekerId |-> 12, postId |-> 31],
     [id |-> 43, seekerId |-> 12, postId |-> 32]}

MatchesListed == Resp(200, "matches")

\* await jobSeekerProfile.findUnique({ where: { userId } }); if (!profile) return 404
MyApplicationsStart(r, u) ==
    /\ Free(r)
    /\ reqs' = [reqs EXCEPT ![r] =
           IF ProfileOfUser(u) = 0
           THEN [IdleReq EXCEPT !.kind = "myapps", !.pc = "done", !.userId = u,
                                !.resp = SeekerProfileNotFound]
           ELSE [IdleReq EXCEPT !.kind = "myapps", !.pc = "y_list", !.userId = u,
                                !.profile = ProfileOfUser(u)]]
    /\ UNCHANGED <<appVars, authVars>>

\* a listing that leaves out the Applications that were decided
MyApplicationsFind_PendingOnly(r) ==
    /\ reqs[r].kind = "myapps" /\ reqs[r].pc = "y_list"
    /\ reqs' = [reqs EXCEPT ![r] =
           [IdleReq EXCEPT !.kind = "myapps", !.pc = "done", !.userId = reqs[r].userId,
                           !.resp = ApplicationsListed,
                           !.rows = {a \in apps : a.seekerId = reqs[r].profile
                                                  /\ a.status = "pending"}]]
    /\ UNCHANGED <<appVars, authVars>>

\* await application.findMany({ where: { seekerId: profile.id } }); res.json
MyApplicationsFind(r) ==
    /\ reqs[r].kind = "myapps" /\ reqs[r].pc = "y_list"
    /\ reqs' = [reqs EXCEPT ![r] =
           [IdleReq EXCEPT !.kind = "myapps", !.pc = "done", !.userId = reqs[r].userId,
                           !.resp = ApplicationsListed,
                           !.rows = {a \in apps : a.seekerId = reqs[r].profile}]]
    /\ UNCHANGED <<appVars, authVars>>

MyMatchesStart(r, u) ==
    /\ Free(r)
    /\ reqs' = [reqs EXCEPT ![r] =
           IF ProfileOfUser(u) = 0
           THEN [IdleReq EXCEPT !.kind = "mymatches", !.pc = "done", !.userId = u,
                                !.resp = SeekerProfileNotFound]
           ELSE [IdleReq EXCEPT !.kind = "mymatches", !.pc = "y_list", !.userId = u,
                                !.profile = ProfileOfUser(u)]]
    /\ UNCHANGED <<appVars, authVars>>

\* a listing without the filter on the seeker
MyMatchesFind_All(r) ==
    /\ reqs[r].kind = "mymatches" /\ reqs[r].pc = "y_list"
    /\ reqs' = [reqs EXCEPT ![r] =
           [IdleReq EXCEPT !.kind = "mymatches", !.pc = "done", !.userId = reqs[r].userId,
                           !.resp = MatchesListed, !.rows = matches]]
    /\ UNCHANGED <<appVars, authVars>>

\* await match.findMany({ where: { seekerId: profile.id } }); res.json
MyMatchesFind(r) ==
    /\ reqs[r].kind = "mymatches" /\ reqs[r].pc = "y_list"
    /\ reqs' = [reqs EXCEPT ![r] =
           [IdleReq EXCEPT !.kind = "mymatches", !.pc = "done", !.userId = reqs[r].userId,
                           !.resp = MatchesListed,
                           !.rows = {m \in matches : m.seekerId = reqs[r].profile}]]
    /\ UNCHANGED <<appVars, authVars>>

\* the listings of users 1, 2 and 3 while users 1 and 2 apply
NextListing ==
    \E r \in Slots :
        \/ \E in \in ApplyInputs : ApplyStart(r, in[1], in[2], TRUE)
        \/ ApplyFindJob(r)
        \/ ApplyFindExisting(r)
        \/ ApplyCreate(r)
        \/ \E u \in {1, 2, 3} : MyApplicationsStart(r, u)
        \/ MyApplicationsFind(r)
        \/ \E u \in {1, 2, 3} : MyMatchesStart(r, u)
        \/ MyMatchesFind(r)

SpecListing == Init /\ [][NextListing]_vars

\* ------------------------------------------------- POST /api/job-seekers
\* createProfileSchema.parse; await jobSeekerProfile.findUnique({ where:
\* { userId } }); if (existingProfile) return 400
ProfileCreateStart(r, u, bodyOk) ==
    /\ Free(r)
    /\ LET gone == [IdleReq EXCEPT !.kind = "profile", !.pc = "done"]
       IN reqs' = [reqs EXCEPT ![r] =
              IF ~bodyOk THEN [gone EXCEPT !.resp = ValidationError]
              ELSE IF ProfileOfUser(u) # 0
              THEN [gone EXCEPT !.resp = Resp(400, "Profile already exists")]
              ELSE [IdleReq EXCEPT !.kind = "profile", !.pc = "p_create", !.userId = u]]
    /\ UNCHANGED <<appVars, authVars>>

\* await jobSeekerProfile.create({ data: { userId, ... } }); a create for a
\* user id that is stored (the key of the lookup above) is refused by the
\* store, and the catch answers 500
ProfileCreateInsert(r) ==
    /\ reqs[r].kind = "profile" /\ reqs[r].pc = "p_create"
    /\ IF ProfileOfUser(reqs[r].userId) # 0
       THEN /\ reqs' = Finish(r, Resp(500, "Failed to create profile"))
            /\ UNCHANGED <<appVars, authVars>>
       ELSE /\ profiles' = profiles \cup
                   {[id |-> 1 + CHOOSE n \in {10} \cup {q.id : q \in profiles} :
                                    \A q \in profiles : q.id <= n,
                     userId |-> reqs[r].userId]}
            /\ reqs' = Finish(r, Resp(201, "Profile created successfully"))
            /\ UNCHANGED <<shops, posts, apps, nextAppId, authVars>>

\* ------------------------------------------------ a seeker's first steps
\* A store with the shops and their owners, an open and a closed posting, and
\* no seeker yet.
InitScenario ==
    /\ profiles = {}
    /\ shops = {[id |-> 21, userId |-> 4], [id |-> 22, userId |-> 5]}
    /\ posts = {[id |-> 31, shopId |-> 21, status |-> "open"],
                [id |-> 32, shopId |-> 22, status |-> "closed"]}
    /\ apps = {}
    /\ nextAppId = 1
    /\ users = {[id |-> 4, email |-> "d@x.com", passwordHash |-> hashPassword("secret0"),
                 roleId |-> ROLES.SHOP_OWNER, isActive |-> TRUE],
                [id |-> 5, email |-> "e@x.com", passwordHash |-> hashPassword("secret0"),
                 roleId |-> ROLES.SHOP_OWNER, isActive |-> TRUE]}
    /\ resets = {}
    /\ now = 0
    /\ reqs = [r \in Slots |-> IdleReq]
    /\ pwUpdates = [c \in 1..MaxResets |-> 0]

\* a@x.com registers as a seeker and logs in; the registered identity creates
\* its profile, applies to posting 31 and lists its Applications; the owner
\* of posting 31 accepts Applications
NextScenario ==
    \E r \in Slots :
        \/ RegisterStart(r, "a@x.com", "secret1", ROLES.JOB_SEEKER)
        \/ RegisterCreate(r)
        \/ LoginStart(r, "a@x.com", "secret1")
        \/ LoginCompare(r)
        \/ \E u \in {x \in users : x.email = "a@x.com"} : ProfileCreateStart(r, u.id, TRUE)
        \/ ProfileCreateInsert(r)
        \/ \E u \in {x \in users : x.email = "a@x.com"} : ApplyStart(r, u.id, 31, TRUE)
        \/ ApplyFindJob(r)
        \/ ApplyFindExisting(r)
        \/ ApplyCreate(r)
        \/ \E id \in AppIds : StatusStart(r, 4, id, "accepted", TRUE)
        \/ StatusFind(r)
        \/ StatusUpdate(r)
        \/ \E u \in {x \in users : x.email = "a@x.com"} : MyApplicationsStart(r, u.id)
        \/ MyApplicationsFind(r)

SpecScenario == InitScenario /\ [][NextScenario]_vars

\* ------------------------------------------------------- posting creation
\* POST /api/jobs
ShopProfileRequired == Resp(404, "Shop profile not found. Please create a shop profile first.")
JobCreated == Resp(201, "Job created successfully")

NewPostId == 1 + CHOOSE n \in {p.id : p \in posts} : \A p \in posts : p.id <= n

\* createJobSchema.parse(req.body) and the shop lookup
JobCreateStart(r, u, bodyOk) ==
    /\ Free(r)
    /\ reqs' = [reqs EXCEPT ![r] =
           IF ~bodyOk
           THEN [IdleReq EXCEPT !.kind = "jobcreate", !.pc = "done", !.resp = ValidationError]
           ELSE IF ShopOfUser(u) = 0
           THEN [IdleReq EXCEPT !.kind = "jobcreate", !.pc = "done", !.resp = ShopProfileRequired]
           ELSE [IdleReq EXCEPT !.kind = "jobcreate", !.pc = "c_create",
                                !.userId = u, !.shop = ShopOfUser(u)]]
    /\ UNCHANGED <<appVars, authVars>>

\* prisma.shopJobPost.create: the data names no status, the new posting has
\* the status of a new posting, open
JobCreateInsert(r) ==
    /\ reqs[r].pc = "c_create"
    /\ Cardinality(posts) < MaxPosts
    /\ posts' = posts \cup {[id |-> NewPostId, shopId |-> reqs[r].shop, status |-> "open"]}
    /\ reqs' = Finish(r, JobCreated)
    /\ UNCHANGED <<profiles, shops, apps, nextAppId, authVars>>

\* ------------------------------------------------------ the gated routes
\* The routes behind authenticate and requireRole. The middleware runs in the
\* turn the request arrives in; a refused request is answered there and the
\* handler does not start.

\* times of issue: a week before the clock's origin (expired at the origin),
\* one minute later (in its last minute at the origin) and the origin
IssueTimes == {0 - JWT_EXPIRES_IN, 1 - JWT_EXPIRES_IN, 0}

\* the headers the routes are called with: none, one that is not a Bearer
\* header, a token signed with another key, and for each role a token that
\* has just expired and one in its last minute
GateHeaders ==
    {NoHeader, Basic(generateToken(SeekerPayload, 0)), Bearer(sign(ForgedPayload, "other-key", 0))}
    \cup {Bearer(generateToken(p, t)) : p \in {SeekerPayload, OwnerPayload},
                                         t \in {0 - JWT_EXPIRES_IN, 1 - JWT_EXPIRES_IN}}

Refused(r, kind, header, resp) ==
    /\ Free(r)
    /\ reqs' = [reqs EXCEPT ![r] =
           [IdleReq EXCEPT !.kind = kind, !.pc = "done", !.header = header, !.resp = resp]]
    /\ UNCHANGED <<appVars, authVars>>

GatedApplyStart(r, header, p, bodyOk) ==
    LET g == Gate(header, {ROLES.JOB_SEEKER}, now)
    IN IF g.next THEN ApplyStart(r, g.user.userId, p, bodyOk)
       ELSE Refused(r, "apply", header, g.resp)

GatedWithdrawStart(r, header, id) ==
    LET g == Gate(header, {ROLES.JOB_SEEKER}, now)
    IN IF g.next THEN WithdrawStart(r, g.user.userId, id)
       ELSE Refused(r, "withdraw", header, g.resp)

GatedStatusStart(r, header, id, status, bodyOk) ==
    LET g == Gate(header, {ROLES.SHOP_OWNER}, now)
    IN IF g.next THEN StatusStart(r, g.user.userId, id, status, bodyOk)
       ELSE Refused(r, "status", header, g.resp)

\* the route without its role check
GatedJobStatusStart_NoRoleCheck(r, header, id, status) ==
    LET g == authenticate(header, now)
    IN IF g.next THEN JobStatusStart(r, g.user.userId, id, status)
       ELSE Refused(r, "jobstatus", header, g.resp)

GatedJobStatusStart(r, header, id, status) ==
    LET g == Gate(header, {ROLES.SHOP_OWNER}, now)
    IN IF g.next THEN JobStatusStart(r, g.user.userId, id, status)
       ELSE Refused(r, "jobstatus", header, g.resp)

GatedJobCreateStart(r, header, bodyOk) ==
    LET g == Gate(header, {ROLES.SHOP_OWNER}, now)
    IN IF g.next THEN JobCreateStart(r, g.user.userId, bodyOk)
       ELSE Refused(r, "jobcreate", header, g.resp)

NextGated ==
    \E r \in Slots :
        \/ \E h \in GateHeaders : GatedApplyStart(r, h, 31, TRUE)
        \/ ApplyFindJob(r)
        \/ ApplyFindExisting(r)
        \/ ApplyCreate(r)
        \/ \E h \in GateHeaders : GatedJobCreateStart(r, h, TRUE)
        \/ JobCreateInsert(r)

SpecGated == Init /\ [][NextGated]_vars

\* the role-gated routes that write an Application or the status of a
\* posting, called with the token of a seeker and the token of an owner
RoleHeaders ==
    {Bearer(generateToken(SeekerPayload, 0)), Bearer(generateToken(OwnerPayload, 0))}

NextRoles ==
    \E r \in Slots :
        \/ \E h \in RoleHeaders : GatedApplyStart(r, h, 31, TRUE)
        \/ ApplyFindJob(r)
        \/ ApplyFindExisting(r)
        \/ ApplyCreate(r)
        \/ \E h \in RoleHeaders : GatedWithdrawStart(r, h, 1)
        \/ WithdrawFind(r)
        \/ WithdrawDelete(r)
        \/ \E h \in RoleHeaders : GatedStatusStart(r, h, 1, "accepted", TRUE)
        \/ StatusFind(r)
        \/ StatusUpdate(r)
        \/ \E h \in RoleHeaders : GatedJobStatusStart(r, h, 31, "closed")
        \/ JobStatusFind(r)
        \/ JobStatusUpdate(r)

SpecRoles == Init /\ [][NextRoles]_vars

\* --------------------------------------------- GET /api/jobs (job listing)
\* A public route: no middleware. where.status is the status of the query
\* when one is given (an empty one counts as none) and "open" otherwise;
\* await shopJobPost.findMany({ where, orderBy: { createdAt: "desc" }, take,
\* skip }): the rows are those of the moment of the call, the newest first
\* (ids grow with the time of creation).

\* a listing that sets no status when the query has none
JobListStart_NoDefault(r, status, limit, offset) ==
    /\ Free(r)
    /\ LET found == IF status # "" THEN {j \in posts : j.status = status} ELSE posts
           before(j) == Cardinality({k \in found : k.id > j.id})
       IN reqs' = [reqs EXCEPT ![r] =
              [IdleReq EXCEPT !.kind = "joblist", !.pc = "g_count", !.status = status,
                              !.rows = {j \in found : offset <= before(j)
                                                       /\ before(j) < offset + limit}]]
    /\ UNCHANGED <<appVars, authVars>>

JobListStart(r, status, limit, offset) ==
    /\ Free(r)
    /\ LET where == IF status # "" THEN status ELSE "open"
           found == {j \in posts : j.status = where}
           before(j) == Cardinality({k \in found : k.id > j.id})
       IN reqs' = [reqs EXCEPT ![r] =
              [IdleReq EXCEPT !.kind = "joblist", !.pc = "g_count", !.status = status,
                              !.rows = {j \in found : offset <= before(j)
                                                       /\ before(j) < offset + limit}]]
    /\ UNCHANGED <<appVars, authVars>>

\* total = await shopJobPost.count({ where }); res.json({ jobs, total, limit,
\* offset }): a read; the total is not kept in the response of the model,
\* the rows found and the status asked for are
JobListCount(r) ==
    /\ reqs[r].kind = "joblist" /\ reqs[r].pc = "g_count"
    /\ reqs' = [reqs EXCEPT ![r] =
           [IdleReq EXCEPT !.kind = "joblist", !.pc = "done", !.status = reqs[r].status,
                           !.rows = reqs[r].rows, !.resp = Resp(200, "jobs")]]
    /\ UNCHANGED <<appVars, authVars>>

\* listings with and without a status, whole and paged, while the owner of
\* posting 31 creates postings and closes and reopens posting 31
NextJobList ==
    \E r \in Slots :
        \/ \E status \in {"", "closed"}, page \in {<<50, 0>>, <<1, 1>>} :
              JobListStart(r, status, page[1], page[2])
        \/ JobListCount(r)
        \/ \E status \in {"closed", "open"} : JobStatusStart(r, 4, 31, status)
        \/ JobStatusFind(r)
        \/ JobStatusUpdate(r)
        \/ JobCreateStart(r, 4, TRUE)
        \/ JobCreateInsert(r)

SpecJobList == Init /\ [][NextJobList]_vars

\* ------------------------------------------- recovery followed by a login
\* User 1 asks for a code and resets the password with it, with another code
\* and under an email that is not registered, while logins arrive with the
\* old and the new password of user 1 and under an email that is not
\* registered.
NextRecovery ==
    \/ \E r \in Slots : ForgotStart(r, "a@x.com", "123456")
    \/ \E r \in Slots : ForgotCreate(r)
    \/ \E r \in Slots, in \in {<<"a@x.com", "123456">>, <<"a@x.com", "654321">>, <<"z@x.com", "123456">>} :
          ResetStart(r, in[1], in[2], "secret1")
    \/ \E r \in Slots : ResetFind(r)
    \/ \E r \in Slots : ResetCommit(r)
    \/ \E r \in Slots : ResetRollback(r)
    \/ \E r \in Slots, in \in {<<"a@x.com", "secret0">>, <<"a@x.com", "secret1">>, <<"z@x.com", "secret0">>} :
          LoginStart(r, in[1], in[2])
    \/ \E r \in Slots : LoginCompare(r)

SpecRecovery == Init /\ [][NextRecovery]_vars

\* ------------------------------------------------- logins of two identities
\* a password of 73 characters: 72 times "x" and the given last one
Padded(last) == "xxxxxxxxxxxxxxxxxxxxxxxxxxxxxxxxxxxxxxxxxxxxxxxxxxxxxxxxxxxxxxxxxxxxxxxx" \o last

\* A seeker registers under n@x.com with a password of 73 characters; logins
\* arrive for user 1 with the stored password and another, and for n@x.com
\* with the registered password and one that differs in its last character,
\* while user 1 is deactivated.
NextLogin ==
    \/ \E r \in Slots : RegisterStart(r, "n@x.com", Padded("a"), ROLES.JOB_SEEKER)
    \/ \E r \in Slots : RegisterCreate(r)
    \/ \E r \in Slots, in \in {<<"a@x.com", "secret0">>, <<"a@x.com", "secret1">>,
                               <<"n@x.com", Padded("a")>>, <<"n@x.com", Padded("b")>>} :
          LoginStart(r, in[1], in[2])
    \/ \E r \in Slots : LoginCompare(r)
    \/ Deactivate(1)

SpecLogin == Init /\ [][NextLogin]_vars

\* ------------------------------------------------- the code of a recovery
\* Number.prototype.toString(): the decimal digits of a natural number
RECURSIVE toString(_)
toString(n) ==
    IF n < 10 THEN SubSeq("0123456789", n + 1, n + 1)
    ELSE toString(n \div 10) \o SubSeq("0123456789", (n % 10) + 1, (n % 10) + 1)

\* a code drawn from the whole million
generateOTPAt_Million(k) == toString((k * 1000000) \div RandomScale)

\* generateOTP() when Math.random() returns k / RandomScale:
\* Math.floor(100000 + Math.random() * 900000).toString()
generateOTPAt(k) == toString(100000 + (k * 900000) \div RandomScale)

\* requestReset for user 1 with the codes of the least and the greatest
\* value of Math.random(), while the clock advances
NextOtp ==
    \/ \E r \in Slots, k \in {0, RandomScale - 1} :
          ForgotStart(r, "a@x.com", generateOTPAt(k))
    \/ \E r \in Slots : ForgotCreate(r)
    \/ Tick

SpecOtp == Init /\ [][NextOtp]_vars

Next == NextApp \/ NextStatus \/ NextWithdraw \/ NextJob \/ NextOrder \/ NextReset \/ NextAccount \/ NextToken \/ NextListing \/ NextScenario \/ NextGated \/ NextRoles \/ NextJobList \/ NextRecovery \/ NextLogin \/ NextOtp

Spec == Init /\ [][Next]_vars

\* ------------------------------------------------ the application claims
AppsOfPair(table, seeker, post) == {a \in table : a.seekerId = seeker /\ a.postId = post}

\* C1: in every reachable state, whatever apply, withdraw and status-update
\* requests ran and however they interleaved, the Application table holds at
\* most one row for each (seeker id, posting id) pair.
C1_OnePerPair ==
    \A a \in apps, b \in apps :
        (a.seekerId = b.seekerId /\ a.postId = b.postId) => a = b

\* an insert of a stored pair was attempted and refused, after a withdrawal
\* and a status update had run
C1_Witness ==
    /\ \E r \in Slots : reqs[r].resp = ApplyInternalError
    /\ \E a \in apps : a.id > 1 /\ a.status = "accepted"

\* C2: an apply request whose seeker already has a stored Application for the
\* open posting passes the posting checks, fails its duplicate check with
\* DuplicateApplication and leaves the Application table as it was.
C2_DuplicateRejected ==
    [][\A r \in Slots :
         (/\ reqs[r].kind = "apply"
          /\ reqs[r].pc \in {"a_job", "a_existing"}
          /\ reqs'[r] # reqs[r]
          /\ PostExists(reqs[r].postId) /\ PostById(reqs[r].postId).status = "open"
          /\ ExistingApplication(reqs[r].profile, reqs[r].postId))
         => /\ apps' = apps /\ nextAppId' = nextAppId
            /\ reqs[r].pc = "a_job" => reqs'[r].pc = "a_existing"
            /\ reqs[r].pc = "a_existing" =>
                  reqs'[r].pc = "done" /\ reqs'[r].resp = DuplicateApplication]_vars

\* a second apply has been answered DuplicateApplication and the first
\* Application is still the only one
C2_Witness ==
    /\ \E r \in Slots : reqs[r].kind = "apply" /\ reqs[r].resp = DuplicateApplication
    /\ Cardinality(apps) = 1

\* C3: when an apply request that got as far as its duplicate check finishes,
\* exactly one Application of its (seeker, posting) pair is stored; so two
\* identical apply requests that run interleaved leave exactly one
\* Application once both have finished.
C3_ExactlyOneStored ==
    [][\A r \in Slots :
         (/\ reqs[r].kind = "apply"
          /\ reqs[r].pc \in {"a_existing", "a_create"}
          /\ reqs'[r].pc = "done")
         => Cardinality(AppsOfPair(apps', reqs[r].profile, reqs[r].postId)) = 1]_vars

\* both of two interleaved identical apply requests have finished: one
\* created the Application, the other's insert was refused
C3_Witness ==
    /\ reqs[1].resp = ApplicationCreated
    /\ reqs[2].resp = ApplyInternalError
    /\ Cardinality(apps) = 1

\* C4: the duplicate check and the insert are one atomic unit: never have two
\* apply requests for the same (seeker, posting) pair both passed the
\* duplicate check.
C4_CheckAndInsertAtomic ==
    \A r \in Slots, q \in Slots :
        (/\ r # q
         /\ reqs[r].kind = "apply" /\ reqs[r].pc = "a_create"
         /\ reqs[q].kind = "apply" /\ reqs[q].pc = "a_create")
        => ~(reqs[r].profile = reqs[q].profile /\ reqs[r].postId = reqs[q].postId)

\* --------------------------------------------------- the recovery claims
\* the rows of a table with the user id and the code of request r
RowsOfRequest(table, r) ==
    {c \in table : c.userId = reqs[r].user /\ c.otpCode = reqs[r].otpCode}

\* C5: a Password Reset Record is consumed at most once: of the consumeReset
\* requests that present its email and code, however they interleave, at most
\* one commits a password update.
C5_ConsumedAtMostOnce ==
    \A c \in resets : pwUpdates[c.id] <= 1

\* C6: once a consumeReset has succeeded with an (email, code), a consumeReset
\* that looks the same (email, code) up afterwards, no unused record carrying
\* that code, fails with InvalidOrExpiredOTP and changes neither the password
\* hash nor the records.
C6_ReuseRejected ==
    [][\A r \in Slots :
         (/\ reqs[r].kind = "reset" /\ reqs[r].pc = "r_find"
          /\ reqs'[r] # reqs[r]
          /\ \E c \in RowsOfRequest(resets, r) : c.isUsed /\ pwUpdates[c.id] > 0
          /\ \A c \in RowsOfRequest(resets, r) : c.isUsed)
         => /\ reqs'[r].pc = "done" /\ reqs'[r].resp = InvalidOrExpiredOTP
            /\ users' = users /\ resets' = resets]_vars

\* a code has been consumed and a consumeReset that then presented it, still
\* within its window, has been answered InvalidOrExpiredOTP; the password is
\* the one the first request set
C6_Witness ==
    /\ \E r \in Slots : reqs[r].resp = InvalidOrExpiredOTP /\ reqs[r].sawUsed
    /\ \A c \in resets : c.isUsed /\ pwUpdates[c.id] = 1
    /\ \A u \in users : u.id = 1 => u.passwordHash = hashPassword("secret1")

\* C7: the password update and the marking of the record go together or not
\* at all: a record is used exactly if a password update that consumed it
\* took effect, a transaction that commits leaves the new hash and the used
\* record, and one that fails leaves both tables as they were and is answered
\* InternalError.
C7_TransactionAtomic ==
    [][/\ \A c \in resets' : c.isUsed <=> pwUpdates'[c.id] > 0
       /\ \A r \in Slots :
            (reqs[r].kind = "reset" /\ reqs[r].pc = "r_tx" /\ reqs'[r] # reqs[r])
            => \/ /\ reqs'[r].resp = ResetSuccessful
                  /\ \E u \in users' : /\ u.id = reqs[r].user
                                       /\ u.passwordHash = hashPassword(reqs[r].newPassword)
                  /\ \E c \in resets' : c.id = reqs[r].passwordReset /\ c.isUsed
               \/ /\ reqs'[r].resp = ResetInternalError
                  /\ users' = users /\ resets' = resets]_vars

\* a transaction has failed and was answered InternalError: the record is
\* unused and the password is the old one
C7_Witness ==
    /\ \E r \in Slots : reqs[r].resp = ResetInternalError
    /\ resets # {}
    /\ \A c \in resets : ~c.isUsed
    /\ \A u \in users : u.passwordHash = hashPassword("secret0")

\* C8: a code expires 10 minutes after it was issued; a consumeReset with a
\* matching unused code passes the lookup when the clock is at or before the
\* expiry, and fails with InvalidOrExpiredOTP, changing nothing, when the
\* clock is past the expiry of every such record.
C8_ExpiryWindow ==
    [][\A r \in Slots :
         /\ (reqs'[r].kind = "forgot" /\ reqs'[r].pc = "f_create" /\ reqs'[r] # reqs[r])
            => reqs'[r].otpExpiry = now + OTP_EXPIRY_MINUTES
         /\ (reqs[r].kind = "reset" /\ reqs[r].pc = "r_find" /\ reqs'[r] # reqs[r])
            => LET unused == {c \in RowsOfRequest(resets, r) : ~c.isUsed} IN
               /\ (\E c \in unused : now <= c.otpExpiry)
                  => /\ reqs'[r].pc = "r_tx"
                     /\ \E c \in unused : now <= c.otpExpiry /\ reqs'[r].passwordReset = c.id
               /\ (unused # {} /\ \A c \in unused : now > c.otpExpiry)
                  => /\ reqs'[r].pc = "done" /\ reqs'[r].resp = InvalidOrExpiredOTP
                     /\ users' = users /\ resets' = resets]_vars

\* a consumeReset has passed the lookup at the very minute its code expires
C8_Witness ==
    \E r \in Slots :
        /\ reqs[r].kind = "reset" /\ reqs[r].pc = "r_tx"
        /\ reqs[r].checkedAt = ResetById(reqs[r].passwordReset).otpExpiry

\* C9: requestReset answers an email that matches no identity exactly as it
\* answers an email that matches one.
C9_SameResponse ==
    \A r \in Slots, q \in Slots :
        (/\ reqs[r].kind = "forgot" /\ reqs[r].pc = "done" /\ reqs[r].resp.status = 200
         /\ reqs[q].kind = "forgot" /\ reqs[q].pc = "done" /\ reqs[q].resp.status = 200)
        => /\ reqs[r].resp.body = reqs[q].resp.body
           /\ (reqs[r].resp.otpCode = "") = (reqs[q].resp.otpCode = "")

\* C10: no step of a requestReset changes a stored record; a record changes
\* only by becoming used, in the commit of the consumeReset that matched it,
\* one record a step; a record that is consumable stays so until the clock
\* passes its expiry or that commit.
C10_RecordsKept ==
    [][/\ \A r \in Slots :
            (reqs[r].kind = "forgot" /\ reqs'[r] # reqs[r]) => resets \subseteq resets'
       /\ Cardinality(resets \ resets') <= 1
       /\ \A c \in resets :
            LET consumed == \E r \in Slots :
                                /\ reqs[r].kind = "reset" /\ reqs[r].pc = "r_tx"
                                /\ reqs[r].passwordReset = c.id
                                /\ reqs'[r].resp = ResetSuccessful
            IN \E d \in resets' :
                  /\ d.id = c.id /\ d.userId = c.userId
                  /\ d.otpCode = c.otpCode /\ d.otpExpiry = c.otpExpiry
                  /\ d.isUsed # c.isUsed => d.isUsed /\ consumed
                  /\ (~c.isUsed /\ c.otpExpiry >= now)
                        => (~d.isUsed /\ d.otpExpiry >= now') \/ now' > c.otpExpiry \/ consumed]_vars

\* two codes of one identity were outstanding; the later one has been
\* consumed and the earlier one is still consumable
C10_Witness ==
    \E c \in resets, d \in resets :
        /\ c.userId = d.userId /\ d.id < c.id
        /\ c.isUsed /\ pwUpdates[c.id] > 0
        /\ ~d.isUsed /\ d.otpExpiry >= now

\* ---------------------------------------------------- the posting claims
\* the transitions of a posting's status that the specification permits
PermittedJobTransitions ==
    {<<"open", "closed">>, <<"open", "completed">>, <<"closed", "completed">>}

\* C11: a posting's status changes only along open -> closed, open ->
\* completed and closed -> completed: no step moves a posting from closed or
\* completed back to open, or from completed to closed.
C11_PermittedTransitionsOnly ==
    [][\A j \in posts, k \in posts' :
         (j.id = k.id /\ j.status # k.status)
         => <<j.status, k.status>> \in PermittedJobTransitions]_vars

\* C12: a status update changes an Application's status only from pending to
\* accepted or from pending to rejected: it never sets withdrawn or pending
\* and never changes an Application that is already accepted or rejected.
C12_PendingToDecidedOnly ==
    [][\A a \in apps, b \in apps' :
         (a.id = b.id /\ a.status # b.status)
         => a.status = "pending" /\ b.status \in {"accepted", "rejected"}]_vars

\* C13: a posting's status changes only in the update step of a status-update
\* request for that posting whose authenticated identity owns the posting's
\* shop, and becomes the status requested; a status-update request of any
\* other identity never gets to the update and leaves the postings as they
\* were.  No step adds or removes a posting or changes its shop.
C13_OwnerOnlyJobStatus ==
    [][/\ {[id |-> j.id, shopId |-> j.shopId] : j \in posts'}
            = {[id |-> j.id, shopId |-> j.shopId] : j \in posts}
       /\ \A j \in posts, k \in posts' :
            (j.id = k.id /\ j.status # k.status)
            => \E r \in Slots :
                  /\ reqs[r].kind = "jobstatus" /\ reqs[r].pc = "j_update"
                  /\ reqs'[r].resp = JobStatusUpdated
                  /\ reqs[r].postId = j.id /\ reqs[r].status = k.status
                  /\ ShopOfUser(reqs[r].userId) = j.shopId
       /\ \A r \in Slots :
            (/\ reqs[r].kind = "jobstatus" /\ reqs[r].pc \in {"j_find", "j_update"}
             /\ reqs'[r] # reqs[r]
             /\ PostExists(reqs[r].postId)
             /\ PostById(reqs[r].postId).shopId # ShopOfUser(reqs[r].userId))
            => /\ posts' = posts
               /\ reqs[r].pc = "j_find" /\ reqs'[r].pc = "done"]_vars

\* the owner has changed the status of posting 31; a status update for
\* another shop's posting has been refused and posting 32 is as it was
C13_Witness ==
    /\ \E j \in posts : j.id = 31 /\ j.status = "completed"
    /\ \E j \in posts : j.id = 32 /\ j.status = "closed"
    /\ \E r \in Slots : /\ reqs[r].kind = "jobstatus" /\ reqs[r].sawForeign
                         /\ reqs[r].resp = JobNotFoundOrUnauthorized
    /\ \E r \in Slots : reqs[r].kind = "jobstatus" /\ reqs[r].resp = JobStatusUpdated

\* ----------------------------------------- the application ownership claims
\* C14: an Application's status changes only in the update step of a
\* status-update request for it whose authenticated identity owns the shop of
\* the Application's posting, and becomes the status requested; a status
\* update of any other shop owner never gets to the update and leaves the
\* Applications as they were.
C14_OwnerOnlyAppStatus ==
    [][/\ \A a \in apps, b \in apps' :
            (a.id = b.id /\ a.status # b.status)
            => /\ a.seekerId = b.seekerId /\ a.postId = b.postId
               /\ \E r \in Slots :
                     /\ reqs[r].kind = "status" /\ reqs[r].pc = "s_update"
                     /\ reqs'[r].resp = StatusUpdated
                     /\ reqs[r].appId = a.id /\ reqs[r].status = b.status
                     /\ ShopOfUser(reqs[r].userId) = PostById(a.postId).shopId
       /\ \A r \in Slots :
            (/\ reqs[r].kind = "status" /\ reqs[r].pc \in {"s_find", "s_update"}
             /\ reqs'[r] # reqs[r]
             /\ AppExists(reqs[r].appId)
             /\ PostById(AppById(reqs[r].appId).postId).shopId # ShopOfUser(reqs[r].userId))
            => /\ apps' = apps
               /\ reqs[r].pc = "s_find" /\ reqs'[r].pc = "done"]_vars

\* the owner of the posting's shop has accepted the Application, and the
\* status update of the other shop's owner has been refused
C14_Witness ==
    /\ \E a \in apps : a.status = "accepted"
    /\ \E r \in Slots : reqs[r].kind = "status" /\ reqs[r].resp = StatusForbidden
    /\ \E r \in Slots : reqs[r].kind = "status" /\ reqs[r].resp = StatusUpdated

\* C15: a shop owner's status update for an Application whose posting belongs
\* to a different shop is answered as a status update for an Application id
\* that does not exist is answered (ApplicationNotFound, the response of the
\* handler's lookup that finds no row).
C15_ForeignAsNonexistent ==
    [][\A r \in Slots :
         (reqs[r].kind = "status" /\ reqs[r].pc = "s_find" /\ reqs'[r] # reqs[r])
         => /\ ~AppExists(reqs[r].appId) => reqs'[r].resp = ApplicationNotFound
            /\ (/\ AppExists(reqs[r].appId)
                /\ PostById(AppById(reqs[r].appId).postId).shopId # reqs[r].shop)
               => reqs'[r].resp = ApplicationNotFound]_vars

\* C16: the lookup of a status update (PATCH /api/jobs/:id/status) or of a
\* listing (GET /api/applications/job/:jobId) that is made for a posting of a
\* different shop ends the request with JobNotFoundOrUnauthorized, changing
\* no posting, exactly as the same lookup for a posting id that is not
\* stored.
C16_ForeignJobAsNonexistent ==
    [][\A r \in Slots :
         (/\ \/ reqs[r].kind = "jobstatus" /\ reqs[r].pc = "j_find"
             \/ reqs[r].kind = "list" /\ reqs[r].pc = "l_job"
          /\ reqs'[r] # reqs[r])
         => LET missing == ~PostExists(reqs[r].postId)
                foreign == /\ PostExists(reqs[r].postId)
                           /\ PostById(reqs[r].postId).shopId # reqs[r].shop
            IN (missing \/ foreign)
               => /\ reqs'[r].pc = "done"
                  /\ reqs'[r].resp = JobNotFoundOrUnauthorized
                  /\ posts' = posts]_vars

\* a status update and a listing, each for a posting of a different shop,
\* have both been answered JobNotFoundOrUnauthorized
C16_Witness ==
    \E r \in Slots, q \in Slots :
        /\ reqs[r].kind = "jobstatus" /\ reqs[r].pc = "done" /\ reqs[r].sawForeign
        /\ reqs[r].resp = JobNotFoundOrUnauthorized
        /\ reqs[q].kind = "list" /\ reqs[q].pc = "done" /\ reqs[q].sawForeign
        /\ reqs[q].resp = JobNotFoundOrUnauthorized

\* C17: an Application is removed only in the delete step of a withdrawal for
\* it whose authenticated seeker's profile is the Application's seeker, and
\* that step removes it whatever its status; the lookup of a withdrawal for
\* another seeker's Application ends the request with
\* WithdrawNotFoundOrUnauthorized, removing nothing, exactly as the lookup for
\* an id that is not stored.
C17_WithdrawOwnOnly ==
    [][/\ \A a \in apps :
            (\A b \in apps' : b.id # a.id)
            => \E r \in Slots :
                  /\ reqs[r].kind = "withdraw" /\ reqs[r].pc = "w_delete"
                  /\ reqs'[r].resp = Withdrawn
                  /\ reqs[r].appId = a.id
                  /\ ProfileOfUser(reqs[r].userId) = a.seekerId
       /\ \A r \in Slots :
            (reqs[r].kind = "withdraw" /\ reqs'[r] # reqs[r])
            => LET stored == AppExists(reqs[r].appId)
                   own == stored /\ AppById(reqs[r].appId).seekerId = ProfileOfUser(reqs[r].userId)
               IN /\ (reqs[r].pc = "w_find" /\ ~own)
                     => /\ reqs'[r].pc = "done"
                        /\ reqs'[r].resp = WithdrawNotFoundOrUnauthorized
                        /\ apps' = apps
                  /\ (reqs[r].pc = "w_find" /\ own) => reqs'[r].pc = "w_delete"
                  /\ (reqs[r].pc = "w_delete" /\ stored)
                     => /\ own
                        /\ apps' = apps \ {AppById(reqs[r].appId)}
                        /\ reqs'[r].resp = Withdrawn]_vars

\* seeker 1 has withdrawn the first Application and applied again; seeker
\* 2's withdrawal for the second Application has been refused and the
\* Application is still stored
C17_Witness ==
    /\ \E r \in Slots : reqs[r].kind = "withdraw" /\ reqs[r].resp = Withdrawn
    /\ \E r \in Slots : /\ reqs[r].kind = "withdraw" /\ reqs[r].sawForeign
                         /\ reqs[r].resp = WithdrawNotFoundOrUnauthorized
    /\ \E a \in apps : a.id = 2 /\ a.seekerId = 11

\* ------------------------------------------- the creation precondition claims
\* C18: the posting lookup of an apply request that finds the posting stored
\* with a status other than open ends the request with JobClosed and creates
\* no Application, whether or not an Application of the request's (seeker,
\* posting) pair is stored.
C18_ClosedRejected ==
    [][\A r \in Slots :
         (/\ reqs[r].kind = "apply" /\ reqs[r].pc = "a_job"
          /\ reqs'[r] # reqs[r]
          /\ PostExists(reqs[r].postId)
          /\ PostById(reqs[r].postId).status # "open")
         => /\ reqs'[r].pc = "done" /\ reqs'[r].resp = JobClosed
            /\ apps' = apps /\ nextAppId' = nextAppId]_vars

\* two apply requests have been answered JobClosed, one while the seeker's
\* Application for the posting was stored, one while there was none
C18_Witness ==
    \E r \in Slots, q \in Slots :
        /\ reqs[r].kind = "apply" /\ reqs[r].resp = JobClosed
        /\ reqs[r].failed = {"JobClosed", "DuplicateApplication"}
        /\ reqs[q].kind = "apply" /\ reqs[q].resp = JobClosed
        /\ reqs[q].failed = {"JobClosed"}

\* the error kinds of the creation preconditions, in the order of the specification
PreconditionOrder == <<"ProfileRequired", "NotFound", "JobClosed", "DuplicateApplication">>

\* the response each precondition is refused with
PreconditionResponse(kind) ==
    CASE kind = "ProfileRequired" -> ProfileRequired
      [] kind = "NotFound" -> JobNotFound
      [] kind = "JobClosed" -> JobClosed
      [] kind = "DuplicateApplication" -> DuplicateApplication

\* the earliest, in that order, of a nonempty set of error kinds
FirstFailure(kinds) ==
    PreconditionOrder[CHOOSE i \in 1..Len(PreconditionOrder) :
                          /\ PreconditionOrder[i] \in kinds
                          /\ \A k \in 1..(i - 1) : PreconditionOrder[k] \notin kinds]

\* C19: apply checks profile, posting stored, posting open and no stored
\* Application of the pair in this order and reports the first that fails: a
\* check is reached only when the earlier ones held, each check that fails
\* ends the request with its own error, and a request that is refused is
\* refused with the error of the earliest precondition that did not hold
\* (each check reads the store at its own step: when DuplicateApplication is
\* answered the posting was open at the posting lookup, and only a status
\* update that ran since can have closed it).
C19_FirstFailureWins ==
    [][\A r \in Slots :
         (reqs'[r].kind = "apply" /\ reqs'[r] # reqs[r])
         => /\ reqs'[r].pc = "a_job" => ProfileOfUser(reqs'[r].userId) # 0
            /\ reqs'[r].pc = "a_existing"
                  => /\ reqs[r].pc = "a_job"
                     /\ PostExists(reqs[r].postId)
                     /\ PostById(reqs[r].postId).status = "open"
            /\ reqs'[r].pc = "a_create"
                  => /\ reqs[r].pc = "a_existing"
                     /\ ~ExistingApplication(reqs[r].profile, reqs[r].postId)
            /\ (reqs[r].pc = "a_job" /\ ~PostExists(reqs[r].postId))
                  => reqs'[r].resp = JobNotFound
            /\ (reqs[r].pc = "a_job" /\ PostExists(reqs[r].postId)
                   /\ PostById(reqs[r].postId).status # "open")
                  => reqs'[r].resp = JobClosed
            /\ (reqs[r].pc = "a_existing"
                   /\ ExistingApplication(reqs[r].profile, reqs[r].postId))
                  => reqs'[r].resp = DuplicateApplication
            /\ (reqs'[r].pc = "done" /\ reqs'[r].resp \in
                     {ProfileRequired, JobNotFound, JobClosed})
                  => /\ reqs'[r].failed # {}
                     /\ reqs'[r].resp = PreconditionResponse(FirstFailure(reqs'[r].failed))
            /\ (reqs'[r].pc = "done" /\ reqs'[r].resp = DuplicateApplication)
                  => FirstFailure(reqs'[r].failed \cup {"DuplicateApplication"})
                        \in {"JobClosed", "DuplicateApplication"}]_vars

\* a request without a profile for a posting that is not open has been
\* answered ProfileRequired, and a request for a closed posting the seeker
\* had applied to has been answered JobClosed
C19_Witness ==
    \E r \in Slots, q \in Slots :
        /\ reqs[r].kind = "apply" /\ reqs[r].resp = ProfileRequired
        /\ reqs[r].failed = {"ProfileRequired", "JobClosed"}
        /\ reqs[q].kind = "apply" /\ reqs[q].resp = JobClosed
        /\ "DuplicateApplication" \in reqs[q].failed

\* C20: an apply request that is refused, by a precondition or by the
\* validation of its body, has written nothing: the only step of an apply
\* request that changes the store is the insert, which a refused request
\* never reaches, and the answer of a refused request leaves every table as
\* it was.
C20_RefusedWritesNothing ==
    [][\A r \in Slots :
         (reqs'[r].kind = "apply" /\ reqs'[r] # reqs[r])
         => /\ (reqs[r].kind # "apply" \/ reqs[r].pc # "a_create")
                  => /\ UNCHANGED <<profiles, shops, posts, apps, nextAppId, users, resets>>
                     /\ reqs'[r].resp # ApplicationCreated
            /\ (reqs'[r].pc = "done" /\ reqs'[r].resp # ApplicationCreated)
                  => UNCHANGED <<profiles, shops, posts, apps, nextAppId, users, resets>>
            /\ (reqs[r].kind = "apply" /\ reqs[r].pc = "a_create")
                  => reqs'[r].resp \in {ApplicationCreated, ApplyInternalError}]_vars

\* a request with an invalid body and a request for a missing posting have
\* been refused after an Application was created: it is the only row
\* stored
C20_Witness ==
    /\ \E r \in Slots : reqs[r].kind = "apply" /\ reqs[r].resp = ValidationError
    /\ \E r \in Slots : reqs[r].kind = "apply" /\ reqs[r].resp = JobNotFound
    /\ Cardinality(apps) = 1 /\ nextAppId = 2

\* ------------------------------------------------- the middleware claims
\* a header authenticate cannot use at the given time: absent, not a Bearer
\* header, or carrying a token with a foreign signature or a past expiry
BadSignature(header) == header.present /\ header.prefix = "Bearer " /\ header.token.key # JWT_SECRET
ExpiredSigned(header, clock) ==
    /\ header.present /\ header.prefix = "Bearer "
    /\ header.token.key = JWT_SECRET /\ clock >= header.token.exp
Unusable(header, clock) ==
    \/ ~header.present
    \/ header.prefix # "Bearer "
    \/ BadSignature(header)
    \/ ExpiredSigned(header, clock)

\* a step in which a request arrives in slot r: the slot was free and is not
\* what it was (a step that leaves every variable as it was is no step)
Arrives(r) == Free(r) /\ reqs'[r] # reqs[r]

\* C21: a request whose Authorization header is absent, is not a Bearer
\* header, or carries a token that fails verification is answered 401 in the
\* turn it arrives in: no identity is attached, the handler does not start
\* (the request is finished, and the answer is not the role check's 403), and
\* the store is unchanged.
C21_UnusableTokenRefused ==
    [][\A r \in Slots :
          Arrives(r) =>
            \A h \in GateHeaders :
              (/\ Unusable(h, now)
               /\ \/ reqs'[r].kind = "apply" /\ GatedApplyStart(r, h, 31, TRUE)
                  \/ reqs'[r].kind = "jobcreate" /\ GatedJobCreateStart(r, h, TRUE))
              => /\ reqs'[r].pc = "done"
                 /\ reqs'[r].resp.status = 401
                 /\ reqs'[r].resp = IF ~h.present \/ h.prefix # "Bearer "
                                    THEN NoTokenProvided ELSE InvalidOrExpiredToken
                 /\ reqs'[r].userId = 0
                 /\ UNCHANGED <<appVars, authVars>>]_vars

\* two requests were refused, one for a header that is not a Bearer header and
\* one for a forged token, and nothing was stored
C21_Witness ==
    \E r, q \in Slots :
        /\ reqs[r].pc = "done" /\ reqs[r].header.prefix = "Basic "
        /\ reqs[r].resp = NoTokenProvided
        /\ reqs[q].pc = "done" /\ reqs[q].kind = "apply" /\ BadSignature(reqs[q].header)
        /\ reqs[q].resp.status = 401
        /\ apps = {}

\* C22: a request refused for a token with a bad signature and a request
\* refused for a correctly signed but expired token have received the same
\* response, a 401.
C22_SameRejection ==
    \A r, q \in Slots :
        (/\ reqs[r].pc = "done" /\ BadSignature(reqs[r].header)
         /\ reqs[q].pc = "done" /\ ExpiredSigned(reqs[q].header, now))
        => /\ reqs[r].resp = reqs[q].resp
           /\ reqs[r].resp.status = 401

C22_Witness ==
    \E r, q \in Slots :
        /\ reqs[r].pc = "done" /\ BadSignature(reqs[r].header)
        /\ reqs[q].pc = "done" /\ ExpiredSigned(reqs[q].header, now)
        /\ reqs[r].kind = reqs[q].kind

\* C23: requireRole answers 401 when no identity is attached, 403 when the
\* attached identity's role is not an allowed one, and otherwise calls the
\* handler, leaving the identity as it was; on a route, a request whose token
\* verified is answered 403 with the store unchanged when its role is not the
\* route's, and otherwise reaches the handler under the token's identity.
C23_RoleCheck ==
    /\ [](\A user \in {NoUser, SeekerPayload, OwnerPayload, ForgedPayload},
             allowedRoleIds \in SUBSET {ROLES.JOB_SEEKER, ROLES.SHOP_OWNER} :
             LET q == requireRole(allowedRoleIds, user)
             IN /\ q.user = user
                /\ user = NoUser => ~q.next /\ q.resp.status = 401
                /\ user # NoUser /\ user.roleId \notin allowedRoleIds
                      => ~q.next /\ q.resp.status = 403
                /\ user # NoUser /\ user.roleId \in allowedRoleIds
                      => q.next /\ q.resp = NoResp)
    /\ [][\A r \in Slots :
            Arrives(r) =>
              \A h \in GateHeaders :
                ~Unusable(h, now) =>
                  /\ (reqs'[r].kind = "apply" /\ GatedApplyStart(r, h, 31, TRUE))
                       => IF h.token.roleId = ROLES.JOB_SEEKER
                          THEN reqs'[r].pc = "a_job" /\ reqs'[r].userId = h.token.userId
                          ELSE /\ reqs'[r].pc = "done"
                               /\ reqs'[r].resp = InsufficientPermissions
                               /\ UNCHANGED <<appVars, authVars>>
                  /\ (reqs'[r].kind = "jobcreate" /\ GatedJobCreateStart(r, h, TRUE))
                       => IF h.token.roleId = ROLES.SHOP_OWNER
                          THEN reqs'[r].pc = "c_create" /\ reqs'[r].userId = h.token.userId
                          ELSE /\ reqs'[r].pc = "done"
                               /\ reqs'[r].resp = InsufficientPermissions
                               /\ UNCHANGED <<appVars, authVars>>]_vars

\* an owner's request to apply was answered 403 while a seeker's request to
\* apply is in its handler
C23_Witness ==
    \E r, q \in Slots :
        /\ reqs[r].kind = "apply" /\ reqs[r].resp = InsufficientPermissions
        /\ reqs[r].header = Bearer(generateToken(OwnerPayload, 1 - JWT_EXPIRES_IN))
        /\ reqs[q].kind = "apply" /\ reqs[q].pc = "a_job" /\ reqs[q].userId = 1

\* C25: at each sampled time from the issue of a token to the minute after
\* its expiry, verifyToken returns the id, email and role the token was
\* generated from when the time is before the expiry and fails at and after
\* it, and it fails at each of these times for a token signed with another
\* key; on a route, a generated token that has not expired is never answered
\* 401, and one that has is.
SampleTimes(t) == {t, t + 1, t + JWT_EXPIRES_IN - 1, t + JWT_EXPIRES_IN, t + JWT_EXPIRES_IN + 1}

C25_RoundTrip ==
    /\ [](\A payload \in {SeekerPayload, OwnerPayload, ForgedPayload}, t \in IssueTimes :
             \A clock \in SampleTimes(t) :
                LET token == generateToken(payload, t)
                    decoded == verifyToken(token, clock)
                IN /\ token.exp = t + JWT_EXPIRES_IN
                   /\ clock < token.exp => decoded.ok /\ decoded.user = payload
                   /\ clock >= token.exp => ~decoded.ok
                   /\ ~verifyToken(sign(payload, "other-key", t), clock).ok)
    /\ [][\A r \in Slots :
            Arrives(r) =>
              \A h \in {g \in GateHeaders : g.prefix = "Bearer " /\ g.token.key = JWT_SECRET} :
                (\/ reqs'[r].kind = "apply" /\ GatedApplyStart(r, h, 31, TRUE)
                 \/ reqs'[r].kind = "jobcreate" /\ GatedJobCreateStart(r, h, TRUE))
                => (reqs'[r].resp.status = 401) = (now >= h.token.iat + JWT_EXPIRES_IN)]_vars

\* an owner's token has brought a request into its handler, and a token
\* generated from the same payload was refused at the minute of its expiry
C25_Witness ==
    \E r, q \in Slots :
        /\ reqs[r].kind = "jobcreate" /\ reqs[r].pc = "c_create" /\ reqs[r].userId = 4
        /\ reqs[q].kind = "jobcreate" /\ reqs[q].pc = "done"
        /\ reqs[q].header = Bearer(generateToken(OwnerPayload, 0 - JWT_EXPIRES_IN))
        /\ reqs[q].header.token.exp = now
        /\ reqs[q].resp = InvalidOrExpiredToken

\* C24: on the routes that write an Application or the status of a posting,
\* a request with a verified token of the other role is answered 403 and the
\* store is unchanged; a request in a handler of a seeker's route has the
\* user id of a verified seeker token, one in a handler of an owner's route
\* that of a verified owner token; and an Application is inserted or deleted
\* only by a step of a seeker's request, the status of an Application or of a
\* posting is changed only by a step of an owner's request.
VerifiedIds(roleId) ==
    {h.token.userId : h \in {g \in RoleHeaders : ~Unusable(g, now) /\ g.token.roleId = roleId}}

InHandler(r, kinds) == reqs[r].kind \in kinds /\ reqs[r].pc \notin {"idle", "done"}

C26_TokenNeverRevoked ==
    /\ [](\A h \in MeHeaders : ~Unusable(h, now) => authenticate(h, now).next)
    /\ [][\A r \in Slots, h \in MeHeaders :
            Me(r, h) /\ ~Unusable(h, now)
            => /\ reqs'[r].resp = UserFound
               /\ \E u \in reqs'[r].rows : u.id = h.token.userId]_vars

\* the token of user 1 was accepted after the password of user 1 was reset
\* and user 1 was deactivated
C26_Witness ==
    \E r \in Slots :
        /\ reqs[r].kind = "me" /\ reqs[r].resp = UserFound
        /\ reqs[r].header = Bearer(generateToken(SeekerPayload, 0))
        /\ \E u \in reqs[r].rows :
              u.id = 1 /\ ~u.isActive /\ u.passwordHash = hashPassword("secret1")

\* C28: no two stored identities have the same email, and a register request
\* for an email that is stored, at its lookup or at its insert, stores no
\* identity and is answered with an error that carries no token.
C28_EmailUnique ==
    /\ [](\A u, v \in users : u.email = v.email => u.id = v.id)
    /\ [][\A r \in Slots :
            /\ \A in \in RegisterInputs :
                  RegisterStart(r, in[1], in[2], in[3]) /\ UserOfEmail(in[1]) # 0
                  => /\ users' = users
                     /\ reqs'[r].resp = EmailRegistered /\ reqs'[r].token = NoToken
            /\ RegisterCreate(r) /\ UserOfEmail(reqs[r].email) # 0
                  => /\ users' = users
                     /\ reqs'[r].resp.status = 500 /\ reqs'[r].token = NoToken]_vars

\* of two register requests for n@x.com that both passed the lookup, one
\* stored the identity and the other was refused at its insert
C28_Witness ==
    /\ Cardinality({u \in users : u.email = "n@x.com"}) = 1
    /\ \E r, q \in Slots :
          /\ reqs[r].kind = "register" /\ reqs[r].resp = UserRegistered
          /\ reqs[r].token.email = "n@x.com"
          /\ reqs[q].kind = "register" /\ reqs[q].resp = RegistrationFailed

\* C29: no step changes the role of a stored identity, the row a register
\* request stores has the role the request asked for, a password update
\* leaves the role of every row as it is, and every token a response of
\* register or login carries has the id, email and role of a stored identity.
C29_RoleFixed ==
    /\ [][/\ \A u \in users : \E v \in users' : v.id = u.id /\ v.roleId = u.roleId
          /\ \A r \in Slots : \A v \in users' \ users :
                reqs[r].pc = "g_create" /\ reqs'[r].pc = "done" => v.roleId = reqs[r].roleId]_vars
    /\ [](\A u \in users :
            \A v \in UserUpdate(users, u.id, hashPassword("secret1")) :
               \E w \in users : w.id = v.id /\ w.roleId = v.roleId)
    /\ [](\A r \in Slots :
            reqs[r].token # NoToken
            => \E u \in users : /\ u.id = reqs[r].token.userId
                                 /\ u.email = reqs[r].token.email
                                 /\ u.roleId = reqs[r].token.roleId)

\* n@x.com registered as a shop owner, and a later login with n@x.com was
\* answered with a token of that role
C29_Witness ==
    /\ \E u \in users : u.email = "n@x.com" /\ u.roleId = ROLES.SHOP_OWNER
    /\ \E r \in Slots :
          /\ reqs[r].kind = "login" /\ reqs[r].resp = LoginSuccessful
          /\ reqs[r].token.email = "n@x.com" /\ reqs[r].token.roleId = ROLES.SHOP_OWNER

\* C30: the records a seeker's listing of Applications or of Matches
\* returns all have the seeker id of the caller's profile.
C30_OwnRecordsOnly ==
    \A r \in Slots :
        reqs[r].kind \in {"myapps", "mymatches"} /\ reqs[r].pc = "done"
        => \A row \in reqs[r].rows :
              row.seekerId # 0 /\ row.seekerId = ProfileOfUser(reqs[r].userId)

\* user 1 was given the one Match of profile 11 while two Matches of profile
\* 12 are stored, and user 2 was given one Application while an Application
\* of profile 11 is stored
C30_Witness ==
    \E r, q \in Slots :
        /\ reqs[r].kind = "mymatches" /\ reqs[r].userId = 1 /\ Cardinality(reqs[r].rows) = 1
        /\ \E m \in matches : m.seekerId = 12
        /\ reqs[q].kind = "myapps" /\ reqs[q].userId = 2 /\ Cardinality(reqs[q].rows) = 1
        /\ \E a \in apps : a.seekerId = 11

\* --------------------------------------------------- the scenario claim
\* C27: in a store where a@x.com is not registered, each step of the
\* scenario has its outcome in the state the steps before it leave: register
\* of a@x.com with secret1 as a seeker, while the email is not stored, stores
\* the identity and answers 201 with a token of that identity; login with
\* a@x.com and secret1 answers 200 with a token of that identity; the profile
\* creation of that identity, while it has no profile, stores its profile; an
\* apply request of that identity to the open posting 31 passes the profile
\* and the posting check, stores a pending Application when none is stored
\* and is answered DuplicateApplication when one is; the owner's status
\* update makes the Application accepted; and the identity's listing returns
\* exactly its stored Applications, with their stored status.
C27_Scenario ==
    [][\A r \in Slots :
        /\ RegisterCreate(r) /\ UserOfEmail("a@x.com") = 0
           => /\ reqs'[r].resp = UserRegistered
              /\ reqs'[r].token.email = "a@x.com" /\ reqs'[r].token.roleId = ROLES.JOB_SEEKER
              /\ \E u \in users' : /\ u.id = reqs'[r].token.userId /\ u.email = "a@x.com"
                                    /\ comparePassword("secret1", u.passwordHash)
        /\ LoginCompare(r)
           => /\ reqs'[r].resp = LoginSuccessful
              /\ reqs'[r].token.userId = UserOfEmail("a@x.com")
              /\ reqs'[r].token.roleId = ROLES.JOB_SEEKER
        /\ ProfileCreateInsert(r) /\ ProfileOfUser(UserOfEmail("a@x.com")) = 0
           => /\ reqs'[r].resp.status = 201
              /\ \E p \in profiles' \ profiles : p.userId = UserOfEmail("a@x.com")
        /\ (ProfileOfUser(UserOfEmail("a@x.com")) # 0
              /\ ApplyStart(r, UserOfEmail("a@x.com"), 31, TRUE))
           => reqs'[r].pc = "a_job"
        /\ ApplyFindJob(r) => reqs'[r].pc = "a_existing"
        /\ ApplyFindExisting(r)
           => IF \E a \in apps : a.seekerId = reqs[r].profile /\ a.postId = 31
              THEN reqs'[r].resp = DuplicateApplication /\ apps' = apps
              ELSE reqs'[r].pc = "a_create"
        /\ ApplyCreate(r) /\ apps = {}
           => /\ reqs'[r].resp = ApplicationCreated
              /\ \E a \in apps' \ apps :
                    /\ a.seekerId = ProfileOfUser(UserOfEmail("a@x.com"))
                    /\ a.postId = 31 /\ a.status = "pending"
        /\ StatusUpdate(r)
           => /\ reqs'[r].resp = StatusUpdated
              /\ \E a \in apps' : a.id = reqs[r].appId /\ a.status = "accepted"
        /\ MyApplicationsFind(r)
           => /\ reqs'[r].resp = ApplicationsListed
              /\ reqs'[r].rows =
                    {a \in apps : a.seekerId = ProfileOfUser(UserOfEmail("a@x.com"))}]_vars

\* a@x.com is registered with secret1 and has a profile, its second apply
\* request was answered DuplicateApplication, and its listing returned its
\* Application to posting 31 with status accepted
C27_Witness ==
    /\ \E u \in users : u.email = "a@x.com" /\ comparePassword("secret1", u.passwordHash)
    /\ \E r, q \in Slots :
          /\ reqs[r].kind = "apply" /\ reqs[r].resp = DuplicateApplication
          /\ reqs[q].kind = "myapps" /\ reqs[q].resp = ApplicationsListed
          /\ reqs[q].userId = UserOfEmail("a@x.com")
          /\ \E a \in reqs[q].rows : a.postId = 31 /\ a.status = "accepted"

\* the scenario without the profile creation: once a@x.com is registered, an
\* apply request of that identity to the open posting 31, with no Application
\* stored, is not refused
C27_ApplyAfterLogin ==
    [][\A r \in Slots :
          (/\ UserOfEmail("a@x.com") # 0
           /\ apps = {}
           /\ ApplyStart(r, UserOfEmail("a@x.com"), 31, TRUE))
          => reqs'[r].pc = "a_job"]_vars

\* ------------------------------------------------------ the listing claims
\* C31: every posting a job listing has returned has the status "open" when
\* the query gave no status and the status of the query when it gave one; the
\* rows are among the postings stored at the moment of the query, and a
\* listing of a whole page returns every stored posting of that status.
C31_ListedByStatus ==
    /\ [](\A r \in Slots :
            reqs[r].kind = "joblist" =>
              \A j \in reqs[r].rows :
                 j.status = IF reqs[r].status = "" THEN "open" ELSE reqs[r].status)
    /\ [][\A r \in Slots :
            Arrives(r) =>
              \A status \in {"", "closed"} :
                 LET asked == {j \in posts : j.status = IF status = "" THEN "open" ELSE status}
                 IN /\ (JobListStart(r, status, 50, 0) \/ JobListStart(r, status, 1, 1))
                         => reqs'[r].rows \subseteq asked
                    /\ JobListStart(r, status, 50, 0) => reqs'[r].rows = asked]_vars

\* a listing without a status has returned two postings and a listing of
\* the closed postings one, and a posting that is not open is stored
C31_Witness ==
    \E r, q \in Slots :
        /\ reqs[r].kind = "joblist" /\ reqs[r].pc = "done" /\ reqs[r].status = ""
        /\ Cardinality(reqs[r].rows) = 2
        /\ reqs[q].kind = "joblist" /\ reqs[q].pc = "done" /\ reqs[q].status = "closed"
        /\ reqs[q].rows # {}
        /\ \E j \in posts : j.status # "open"

\* ------------------------------------------- the recovery and login claims
\* the passwords of the requests
Passwords == {"secret0", "secret1"}

\* the stored hash of a user
HashOf(table, id) == (CHOOSE u \in table : u.id = id).passwordHash

C36_RefusalsAlike ==
    \A r, q \in Slots :
        /\ (/\ reqs[r].kind = "login" /\ reqs[r].pc = "done" /\ reqs[r].resp # LoginSuccessful
            /\ reqs[q].kind = "login" /\ reqs[q].pc = "done" /\ reqs[q].resp # LoginSuccessful)
           => reqs[r].resp = reqs[q].resp
        /\ (/\ reqs[r].kind = "reset" /\ reqs[r].pc = "done" /\ reqs[r].resp.status = 400
            /\ reqs[q].kind = "reset" /\ reqs[q].pc = "done" /\ reqs[q].resp.status = 400)
           => reqs[r].resp = reqs[q].resp

\* C35: a login that arrives is taken into the handler only with the row of
\* an active identity of its email, and is then answered with a token only
\* when its password verifies against the hash of that row, a token of that
\* row's id, email and role; a login that arrives for a deactivated identity
\* is answered without a token whatever its password; no step of a login
\* changes the store.
C35_TokenOnlyForActive ==
    /\ [](\A r \in Slots :
            /\ (reqs[r].kind = "login" /\ reqs[r].token # NoToken)
                 => reqs[r].pc = "done" /\ reqs[r].resp = LoginSuccessful
            /\ (reqs[r].kind = "login" /\ reqs[r].resp = LoginSuccessful)
                 => reqs[r].token # NoToken)
    /\ [][\A r \in Slots :
            (reqs'[r].kind = "login" /\ reqs'[r] # reqs[r]) =>
              /\ UNCHANGED <<appVars, users, resets, pwUpdates>>
              /\ reqs'[r].pc = "l_compare"
                   => \E u \in users : /\ u.email = reqs'[r].email /\ u.isActive
                                       /\ u.id = reqs'[r].user /\ u.roleId = reqs'[r].roleId
                                       /\ u.passwordHash = reqs'[r].passwordHash
              /\ reqs'[r].token # NoToken
                   => /\ reqs[r].kind = "login" /\ reqs[r].pc = "l_compare"
                      /\ comparePassword(reqs[r].newPassword, reqs[r].passwordHash)
                      /\ reqs'[r].token = generateToken([userId |-> reqs[r].user,
                                                         email |-> reqs[r].email,
                                                         roleId |-> reqs[r].roleId], now)
              /\ \A password \in {"secret0", "secret1"} :
                   (Free(r) /\ ~UserById(1).isActive /\ LoginStart(r, "a@x.com", password))
                   => /\ reqs'[r].pc = "done" /\ reqs'[r].token = NoToken
                      /\ reqs'[r].resp = AccountDeactivated]_vars

\* user 1 has logged in and holds a token, was then deactivated, and a later
\* login for user 1 was answered that the account is deactivated
C35_Witness ==
    \E r, q \in Slots :
        /\ \E u \in users : u.id = 1 /\ ~u.isActive
        /\ reqs[r].kind = "login" /\ reqs[r].resp = LoginSuccessful /\ reqs[r].token.userId = 1
        /\ reqs[q].kind = "login" /\ reqs[q].resp = AccountDeactivated
        /\ reqs[q].token = NoToken

\* the plaintexts of the requests
Plaintexts == {"secret0", "secret1", Padded("a"), Padded("b")}

\* C32: comparePassword verifies every plaintext against its own hash, and
\* against the hash of a plaintext it verifies no other: a login under
\* n@x.com, whose one registration gave the password Padded("a"), holds a
\* password that verifies against the stored hash only when it is that one.
C32_VerifyExact ==
    /\ \A p \in Plaintexts : comparePassword(p, hashPassword(p))
    /\ \A r \in Slots :
          (/\ reqs[r].kind = "login" /\ reqs[r].pc = "l_compare" /\ reqs[r].email = "n@x.com"
           /\ comparePassword(reqs[r].newPassword, reqs[r].passwordHash))
          => reqs[r].newPassword = Padded("a")

\* ------------------------------------------ the claims of later steps
\* C33: an Application is inserted only for a posting that is open at the
\* moment of the insert, so no posting that is closed or completed holds an
\* Application inserted after the change of its status.
C33_OpenAtInsert ==
    [][\A a \in apps' \ apps : PostExists(a.postId) /\ PostById(a.postId).status = "open"]_vars

\* C37: the step that ends a withdraw request with success leaves no
\* Application of the (seeker, posting) pair of the row it deleted, whatever
\* the status of that row; and an apply request for a pair without an
\* Application passes the lookup of the posting while the posting is open,
\* passes the duplicate check, and its insert creates a pending Application
\* of the pair under an id not used before and is answered 201.
C37_FreeAfterWithdraw ==
    [][\A r \in Slots :
         /\ (reqs[r].kind = "withdraw" /\ reqs[r].pc = "w_delete" /\ reqs'[r].resp = Withdrawn)
              => LET a == AppById(reqs[r].appId)
                 IN /\ a \notin apps'
                    /\ AppsOfPair(apps', a.seekerId, a.postId) = {}
         /\ (reqs[r].kind = "apply" /\ reqs'[r] # reqs[r]
             /\ AppsOfPair(apps, reqs[r].profile, reqs[r].postId) = {})
              => /\ (reqs[r].pc = "a_job" /\ PostExists(reqs[r].postId)
                     /\ PostById(reqs[r].postId).status = "open")
                       => reqs'[r].pc = "a_existing"
                 /\ reqs[r].pc = "a_existing" => reqs'[r].pc = "a_create"
                 /\ reqs[r].pc = "a_create"
                       => /\ reqs'[r].resp = ApplicationCreated
                          /\ apps' = apps \cup {[id |-> nextAppId, seekerId |-> reqs[r].profile,
                                                 postId |-> reqs[r].postId, status |-> "pending"]}
                          /\ \A a \in apps : a.id < nextAppId]_vars

\* seeker 11 withdrew the first Application for posting 31 and applied
\* again: the second Application is stored, pending, and the first is gone
C37_Witness ==
    /\ apps = {[id |-> 2, seekerId |-> 11, postId |-> 31, status |-> "pending"]}
    /\ \E r, q \in Slots :
          /\ reqs[r].kind = "withdraw" /\ reqs[r].resp = Withdrawn
          /\ reqs[q].kind = "apply" /\ reqs[q].resp = ApplicationCreated

\* the number a string of decimal digits denotes, -1 for any other string
DecimalDigits == [d \in 0..9 |-> SubSeq("0123456789", d + 1, d + 1)]

RECURSIVE NumberOf(_)
NumberOf(s) ==
    LET last == SubSeq(s, Len(s), Len(s))
        known == {d \in 0..9 : DecimalDigits[d] = last}
        rest == IF Len(s) = 1 THEN 0 ELSE NumberOf(SubSeq(s, 1, Len(s) - 1))
    IN IF Len(s) = 0 \/ known = {} \/ rest < 0 THEN 0 - 1
       ELSE 10 * rest + CHOOSE d \in known : TRUE

SixDigits(s) == Len(s) = OTP_LENGTH /\ NumberOf(s) \in 100000..999999

\* the values of Math.random() whose code is not a string of 6 decimal
\* digits denoting the number computed, a number from 100000 to 999999
BadRandoms ==
    {k \in 0..(RandomScale - 1) :
        ~(/\ SixDigits(generateOTPAt(k))
          /\ NumberOf(generateOTPAt(k)) = 100000 + (k * 900000) \div RandomScale)}

\* C38: for every value Math.random() can return, generateOTP returns a
\* string of 6 decimal digits that denotes a number from 100000 to 999999,
\* the number the code computed; and so is every code a requestReset holds,
\* has stored or has returned.
C38_SixDecimalDigits ==
    /\ BadRandoms = {}
    /\ \A c \in resets : SixDigits(c.otpCode)
    /\ \A r \in Slots :
          /\ reqs[r].kind = "forgot" /\ reqs[r].pc = "f_create" => SixDigits(reqs[r].otpCode)
          /\ reqs[r].kind = "forgot" /\ reqs[r].resp.otpCode # ""
                => SixDigits(reqs[r].resp.otpCode)

\* the codes of the least and of the greatest value of Math.random() are
\* stored
C38_Witness ==
    /\ \E c \in resets : c.otpCode = generateOTPAt(0) /\ c.otpCode = "100000"
    /\ \E c \in resets : c.otpCode = generateOTPAt(RandomScale - 1)
                         /\ NumberOf(c.otpCode) > 999000

====
